---- MODULE Spec2Model ----
(***************************************************************************)
(* Sentinel: transaction classification and alert pipeline.                *)
(*                                                                         *)
(* Ingestion (POST /api/transactions -> TransactionService                 *)
(* .createTransaction -> AIService, TransactionRepository, alertQueue) and *)
(* evaluation (alertWorker -> AlertService.checkAndTriggerAlert).          *)
(*                                                                         *)
(* Numbers: amounts and thresholds are whole currency units; a confidence  *)
(* is counted in hundredths, so 0.5 is 50 and the interval [0,1] is 0..100.*)
(* JavaScript values that may have several types are records               *)
(* [t, s, n]: the typeof tag, the string payload and the number payload.   *)
(* A description's text is a sequence of one-character strings, so that    *)
(* trim() is computed.                                                     *)
(***************************************************************************)
EXTENDS Integers, Sequences, FiniteSets, TLC

VARIABLES
    users,          \* User table: the set of user ids
    transactions,   \* Transaction table: a set of rows
    nextTxId,       \* id generator of the Transaction table
    rules,          \* AlertRule table: a set of rows
    nextRuleId,     \* id generator of the AlertRule table
    queue,          \* alert-queue as held in Redis: job id -> job
    nextJobId,      \* id generator of the queue
    req,            \* the in-flight POST /api/transactions handlers
    alerts,         \* AlertEvents constructed and logged, with the job processed
    completedLog,   \* "completed" events of the worker: job, return value
    ruleReq,        \* the last rule-management request and its response
    probe,          \* a single classifyTransaction call, for ClassifySpec
    spending        \* the GET /api/spending handler: request, summary, response

vars == << users, transactions, nextTxId, rules, nextRuleId, queue, nextJobId,
           req, alerts, completedLog, ruleReq, probe, spending >>

\* the tables of the database, the queue with the worker's output, and the rest
txVars == << transactions, nextTxId >>
ruleVars == << rules, nextRuleId, ruleReq >>
queueVars == << queue, nextJobId >>
workerVars == << alerts, completedLog >>

----------------------------------------------------------------------------
(* JavaScript values *)

Undefined == [t |-> "undefined", s |-> "", n |-> 0]
Null == [t |-> "null", s |-> "", n |-> 0]
Str(x) == [t |-> "string", s |-> x, n |-> 0]
Num(x) == [t |-> "number", s |-> "", n |-> x]

\* !v is FALSE exactly for the truthy values
Truthy(v) ==
    CASE v.t = "string" -> v.s # ""
      [] v.t = "number" -> v.n # 0
      [] OTHER -> FALSE

\* a description: undefined, or a string given by its characters
NoText == [t |-> "undefined", chars |-> << >>]
Text(cs) == [t |-> "string", chars |-> cs]

TruthyText(d) == d.t = "string" /\ Len(d.chars) > 0

WhiteSpace == {" ", "\t"}

RECURSIVE TrimStart(_)
TrimStart(cs) ==
    IF cs # << >> /\ Head(cs) \in WhiteSpace THEN TrimStart(Tail(cs)) ELSE cs

RECURSIVE TrimEnd(_)
TrimEnd(cs) ==
    IF cs # << >> /\ cs[Len(cs)] \in WhiteSpace
    THEN TrimEnd(SubSeq(cs, 1, Len(cs) - 1))
    ELSE cs

\* String.prototype.trim
trim(cs) == TrimEnd(TrimStart(cs))

----------------------------------------------------------------------------
(* AIService *)

ALLOWED_CATEGORIES == << "Food", "Transport", "Utilities", "Entertainment", "Shopping" >>

AllowedSet == { ALLOWED_CATEGORIES[i] : i \in DOMAIN ALLOWED_CATEGORIES }

isValidCategory(category) == category \in AllowedSet

\* a default category that is not one of the allowed categories
Fallback_Other == [category |-> "Other", confidence |-> 50]

\* the default classification returned on any failure
Fallback == [category |-> "Shopping", confidence |-> 50]

\* What the chat-completion call can do, as seen by classifyTransaction:
\*   kind "throws"      the call rejects
\*   kind "empty"       no content in the first choice
\*   kind "unparsable"  JSON.parse(content) throws
\*   kind "null"        content parses to null: reading result.category throws
\*   kind "object"      content parses to an object with these two fields
Reply(kind, category, confidence) ==
    [kind |-> kind, category |-> category, confidence |-> confidence]

\* the validation without the upper limit of the confidence
InvalidStructure_NoUpperLimit(result) ==
    \/ ~Truthy(result.category)
    \/ ~(result.category.t = "string" /\ result.category.s \in AllowedSet)
    \/ result.confidence.t # "number"
    \/ result.confidence.n < 0

\* the structure validation of the parsed response, lines 67-73
InvalidStructure(result) ==
    \/ ~Truthy(result.category)
    \/ ~(result.category.t = "string" /\ result.category.s \in AllowedSet)
    \/ result.confidence.t # "number"
    \/ result.confidence.n < 0
    \/ result.confidence.n > 100

\* AIService.classifyTransaction(description) with the reply the classifier
\* gives; the result is always a ClassificationResult, never an exception
classifyTransaction(description, reply) ==
    IF ~TruthyText(description) \/ Len(trim(description.chars)) = 0
    THEN Fallback                                   \* thrown, caught at line 83
    ELSE IF reply.kind \in {"throws", "empty", "unparsable", "null"}
    THEN Fallback                                   \* thrown, caught at line 83
    ELSE IF InvalidStructure(reply)
    THEN Fallback                                   \* lines 74-79
    ELSE [category |-> reply.category.s, confidence |-> reply.confidence.n]

\* whether classifyTransaction reaches openai.chat.completions.create
CallsOpenAI(description) ==
    TruthyText(description) /\ Len(trim(description.chars)) # 0

----------------------------------------------------------------------------
(* Bounds and input sets *)

MaxTx == 2          \* transactions inserted in one run of the pipeline
MaxRules == 1       \* alert rules created in one run
Slots == 2          \* POST /api/transactions handlers in flight at once
IngestMaxTx == 1     \* transactions inserted in one run of the ingestion alone
RetryMaxTx == 2      \* jobs enqueued in one run of the worker with retries
RuleMaxRules == 2    \* alert rules created in one run of the rule management alone
OrderMaxTx == 2      \* transactions ingested in one run against the fixed rule
EvalJobs == 2        \* jobs evaluated against a store that does not change
StoreMaxTx == 2      \* transactions inserted in one run with deletions
ProvisionMaxTx == 2  \* transactions inserted in one run of two concurrent requests
PoolJobs == 6        \* jobs waiting when the worker pool starts
DecideMaxTx == 1     \* transactions ingested in one run while the store changes
SummaryMaxTx == 2    \* transactions ingested in one run with the spending summary

RequestIds == 1 .. Slots

UserIds == {"u1", "u2"}
Amounts == {5, 15, 85}
Thresholds == {20, 100}

\* request bodies: every field may be missing or of the wrong type
BodyUserIds == {Undefined, Str("")} \cup {Str(u) : u \in UserIds}
BodyDescriptions == {NoText, Text(<< >>), Text(<< " " >>), Text(<< "c" >>)}
BodyAmounts == {Undefined, Null, Str("5"), Num(0), Num(-5)} \cup {Num(a) : a \in Amounts}

\* classifier replies offered to the ingestion: a failed call, a valid
\* reply, a confidence and a category that are not allowed
IngestReplies ==
    { Reply("throws", Undefined, Undefined),
      Reply("object", Str("Food"), Num(90)),
      Reply("object", Str("Food"), Num(150)),
      Reply("object", Str("Other"), Num(90)) }

\* the inputs of the pipeline as a whole: two amounts that the validation
\* accepts and a classifier that answers Food
PipelineBodies ==
    [userId : {Str("u1")}, description : {Text(<< "c" >>)},
     amount : {Num(15), Num(85)}]

PipelineReplies ==
    { Reply("object", Str("Food"), Num(90)) }

----------------------------------------------------------------------------
(* Rows and messages *)

NoTransaction ==
    [id |-> 0, userId |-> "", description |-> << >>, amount |-> 0,
     category |-> "", confidence |-> 0]

NoClassification == [category |-> "", confidence |-> 0]

NoBody == [userId |-> Undefined, description |-> NoText, amount |-> Undefined]

\* ApiResponse of lib/api-response.ts; data is the transaction on success
Response(statusCode, error, data) ==
    [statusCode |-> statusCode, success |-> (error = ""), error |-> error, data |-> data]

NoResponse == Response(0, "", NoTransaction)

IdleRequest ==
    [pc |-> "idle", body |-> NoBody, aiCalled |-> FALSE,
     classification |-> NoClassification, transaction |-> NoTransaction,
     response |-> NoResponse]

NoRule == [id |-> 0, userId |-> "", category |-> "", threshold |-> 0, isActive |-> FALSE]

\* the payload carrying the confidence in the place of the amount
JobData_WrongAmount(userId, transaction) ==
    [userId |-> userId, transactionId |-> transaction.id,
     category |-> transaction.category, amount |-> transaction.confidence]

\* AlertQueueJob: the payload of a "new-transaction" job
JobData(userId, transaction) ==
    [userId |-> userId, transactionId |-> transaction.id,
     category |-> transaction.category, amount |-> transaction.amount]

----------------------------------------------------------------------------
(* POST /api/transactions and TransactionService.createTransaction *)

\* the validation letting an amount of 0 pass
ValidationError_AllowsZero(body) ==
    IF ~Truthy(body.userId) \/ ~TruthyText(body.description) \/ body.amount.t = "undefined"
    THEN "Missing required fields: userId, description, amount"
    ELSE IF body.amount.t # "number" \/ body.amount.n < 0
    THEN "Amount must be a positive number"
    ELSE ""

\* the validation without the check of the description
ValidationError_SkipsDescription(body) ==
    IF ~Truthy(body.userId) \/ body.amount.t = "undefined"
    THEN "Missing required fields: userId, description, amount"
    ELSE IF body.amount.t # "number" \/ body.amount.n <= 0
    THEN "Amount must be a positive number"
    ELSE ""

\* the handler's input validation: "" when the body passes, else the 400 message
ValidationError(body) ==
    IF ~Truthy(body.userId) \/ ~TruthyText(body.description) \/ body.amount.t = "undefined"
    THEN "Missing required fields: userId, description, amount"
    ELSE IF body.amount.t # "number" \/ body.amount.n <= 0
    THEN "Amount must be a positive number"
    ELSE ""

InFlight == { r \in RequestIds : req[r].pc \notin {"idle", "done"} }

\* the handler reads the body and validates it; a valid body enters
\* createTransaction, which starts with the classification
Post(r, body) ==
    /\ req[r].pc \in {"idle", "done"}
    /\ req' = [req EXCEPT ![r] =
                 IF ValidationError(body) # ""
                 THEN [IdleRequest EXCEPT !.pc = "done", !.body = body,
                         !.response = Response(400, ValidationError(body), NoTransaction)]
                 ELSE [IdleRequest EXCEPT !.pc = "classify", !.body = body]]
    /\ UNCHANGED << users, txVars, ruleVars, queueVars, workerVars, probe, spending >>

\* step 1: AIService.classifyTransaction(data.description)
Classify(r, reply) ==
    /\ req[r].pc = "classify"
    /\ req' = [req EXCEPT ![r].pc = "findUser",
                          ![r].aiCalled = CallsOpenAI(req[r].body.description),
                          ![r].classification =
                              classifyTransaction(req[r].body.description, reply)]
    /\ UNCHANGED << users, txVars, ruleVars, queueVars, workerVars, probe, spending >>

\* an error thrown inside createTransaction reaches the handler's catch: 500
Throw(r, message) ==
    [req[r] EXCEPT !.pc = "done", !.response = Response(500, message, NoTransaction)]

\* the repository without the provisioning: the insert follows the lookup
\* whether or not the user was found
FindUser_NoProvisioning(r, dbOk) ==
    /\ req[r].pc = "findUser"
    /\ req' = [req EXCEPT ![r].pc = "insertTx"]
    /\ UNCHANGED << users, txVars, ruleVars, queueVars, workerVars, probe, spending >>

\* step 2, TransactionRepository.create: prisma.user.findUniqueOrThrow; any
\* error, a missing user as well as a failed query, goes to the user create
FindUser(r, dbOk) ==
    /\ req[r].pc = "findUser"
    /\ req' = [req EXCEPT ![r].pc =
                 IF dbOk /\ req[r].body.userId.s \in users
                 THEN "insertTx" ELSE "createUser"]
    /\ UNCHANGED << users, txVars, ruleVars, queueVars, workerVars, probe, spending >>

\* prisma.user.create: fails on a failed write and on an id already present
CreateUser(r, dbOk) ==
    /\ req[r].pc = "createUser"
    /\ IF dbOk /\ req[r].body.userId.s \notin users
       THEN /\ users' = users \cup {req[r].body.userId.s}
            /\ req' = [req EXCEPT ![r].pc = "insertTx"]
       ELSE /\ users' = users
            /\ req' = [req EXCEPT ![r] = Throw(r, "user create failed")]
    /\ UNCHANGED << txVars, ruleVars, queueVars, workerVars, probe, spending >>

\* the row prisma.transaction.create writes for the request
NewTransaction(r) ==
    [id |-> nextTxId,
     userId |-> req[r].body.userId.s,
     description |-> req[r].body.description.chars,
     amount |-> req[r].body.amount.n,
     category |-> req[r].classification.category,
     confidence |-> req[r].classification.confidence]

\* the insert in a transaction with the provisioning: a failed insert takes
\* the user of the request out of the User table again
InsertTx_RollsBackUser(r, dbOk) ==
    /\ req[r].pc = "insertTx"
    /\ IF dbOk /\ req[r].body.userId.s \in users
       THEN /\ transactions' = transactions \cup {NewTransaction(r)}
            /\ nextTxId' = nextTxId + 1
            /\ req' = [req EXCEPT ![r].pc = "enqueue",
                                  ![r].transaction = NewTransaction(r)]
            /\ UNCHANGED users
       ELSE /\ UNCHANGED << transactions, nextTxId >>
            /\ users' = users \ {req[r].body.userId.s}
            /\ req' = [req EXCEPT ![r] = Throw(r, "transaction create failed")]
    /\ UNCHANGED << ruleVars, queueVars, workerVars, probe, spending >>

\* the insert as an upsert on (userId, description): a stored transaction of
\* the same user and description is replaced by the new row
InsertTx_Overwrites(r, dbOk) ==
    /\ req[r].pc = "insertTx"
    /\ IF dbOk /\ req[r].body.userId.s \in users
       THEN /\ transactions' =
                  { t \in transactions :
                        ~(/\ t.userId = NewTransaction(r).userId
                          /\ t.description = NewTransaction(r).description) }
                  \cup {NewTransaction(r)}
            /\ nextTxId' = nextTxId + 1
            /\ req' = [req EXCEPT ![r].pc = "enqueue",
                                  ![r].transaction = NewTransaction(r)]
       ELSE /\ UNCHANGED << transactions, nextTxId >>
            /\ req' = [req EXCEPT ![r] = Throw(r, "transaction create failed")]
    /\ UNCHANGED << users, ruleVars, queueVars, workerVars, probe, spending >>

\* the insert with a failed write swallowed: the request goes on to enqueue
InsertTx_SwallowsError(r, dbOk) ==
    /\ req[r].pc = "insertTx"
    /\ IF dbOk /\ req[r].body.userId.s \in users
       THEN /\ transactions' = transactions \cup {NewTransaction(r)}
            /\ nextTxId' = nextTxId + 1
       ELSE /\ UNCHANGED << transactions, nextTxId >>
    /\ req' = [req EXCEPT ![r].pc = "enqueue", ![r].transaction = NewTransaction(r)]
    /\ UNCHANGED << users, ruleVars, queueVars, workerVars, probe, spending >>

\* the insert returning its row before the row is in the store: the request
\* goes on to enqueue a job for a transaction that is not persisted
InsertTx_NotYetWritten(r, dbOk) ==
    /\ req[r].pc = "insertTx"
    /\ IF dbOk /\ req[r].body.userId.s \in users
       THEN /\ nextTxId' = nextTxId + 1
            /\ req' = [req EXCEPT ![r].pc = "enqueue",
                                  ![r].transaction = NewTransaction(r)]
       ELSE /\ UNCHANGED nextTxId
            /\ req' = [req EXCEPT ![r] = Throw(r, "transaction create failed")]
    /\ UNCHANGED << users, transactions, ruleVars, queueVars, workerVars, probe, spending >>

\* prisma.transaction.create
InsertTx(r, dbOk) ==
    /\ req[r].pc = "insertTx"
    /\ IF dbOk /\ req[r].body.userId.s \in users
       THEN /\ transactions' = transactions \cup {NewTransaction(r)}
            /\ nextTxId' = nextTxId + 1
            /\ req' = [req EXCEPT ![r].pc = "enqueue",
                                  ![r].transaction = NewTransaction(r)]
       ELSE /\ UNCHANGED << transactions, nextTxId >>
            /\ req' = [req EXCEPT ![r] = Throw(r, "transaction create failed")]
    /\ UNCHANGED << users, ruleVars, queueVars, workerVars, probe, spending >>

\* a job as alertQueue.add stores it
NewJob(data) ==
    [data |-> data, attemptsMade |-> 0, state |-> "waiting", pc |-> "",
     alertRule |-> NoRule, workers |-> {}]

\* the enqueue with a failed add undoing the insert of the transaction
Enqueue_RollsBack(r, redisOk) ==
    /\ req[r].pc = "enqueue"
    /\ IF redisOk
       THEN /\ queue' = [j \in DOMAIN queue \cup {nextJobId} |->
                           IF j = nextJobId
                           THEN NewJob(JobData(req[r].body.userId.s, req[r].transaction))
                           ELSE queue[j]]
            /\ nextJobId' = nextJobId + 1
            /\ req' = [req EXCEPT ![r].pc = "done",
                                  ![r].response = Response(201, "", req[r].transaction)]
            /\ UNCHANGED transactions
       ELSE /\ UNCHANGED << queue, nextJobId >>
            /\ transactions' = transactions \ {req[r].transaction}
            /\ req' = [req EXCEPT ![r] = Throw(r, "queue add failed")]
    /\ UNCHANGED << users, nextTxId, ruleVars, workerVars, probe, spending >>

\* step 3, alertQueue.add, then the return of the transaction and the 201;
\* a failed add is caught at line 49 and thrown again
Enqueue(r, redisOk) ==
    /\ req[r].pc = "enqueue"
    /\ IF redisOk
       THEN /\ queue' = [j \in DOMAIN queue \cup {nextJobId} |->
                           IF j = nextJobId
                           THEN NewJob(JobData(req[r].body.userId.s, req[r].transaction))
                           ELSE queue[j]]
            /\ nextJobId' = nextJobId + 1
            /\ req' = [req EXCEPT ![r].pc = "done",
                                  ![r].response = Response(201, "", req[r].transaction)]
       ELSE /\ UNCHANGED << queue, nextJobId >>
            /\ req' = [req EXCEPT ![r] = Throw(r, "queue add failed")]
    /\ UNCHANGED << users, txVars, ruleVars, workerVars, probe, spending >>

----------------------------------------------------------------------------
(* TransactionRepository.getTotalByCategory *)

RECURSIVE SumAmount(_)
SumAmount(rows) ==
    IF rows = {} THEN 0
    ELSE LET row == CHOOSE x \in rows : TRUE
         IN row.amount + SumAmount(rows \ {row})

\* prisma.transaction.aggregate({where: {userId, category}, _sum: {amount}}):
\* _sum.amount is null when no row matches
aggregate(userId, category) ==
    LET rows == { x \in transactions : x.userId = userId /\ x.category = category }
    IN IF rows = {} THEN Null ELSE Num(SumAmount(rows))

\* the total read from a snapshot that misses the latest insert
getTotalByCategory_Stale(userId, category) ==
    LET rows == { x \in transactions : x.userId = userId /\ x.category = category }
        seen == { x \in rows : \E y \in rows : y.id > x.id }
    IN SumAmount(seen)

\* result._sum.amount || 0
getTotalByCategory(userId, category) ==
    LET amount == aggregate(userId, category)
    IN IF Truthy(amount) THEN amount.n ELSE 0

----------------------------------------------------------------------------
(* AlertRuleRepository.findByUserAndCategory *)

\* prisma.alertRule.findUnique on the (userId, category) key: the row or null
findByUserAndCategory(userId, category) ==
    LET found == { x \in rules : x.userId = userId /\ x.category = category }
    IN IF found = {} THEN NoRule ELSE CHOOSE x \in found : TRUE

----------------------------------------------------------------------------
(* alertQueue and alertWorker *)

attempts == 3       \* job option attempts
concurrency == 5    \* worker option concurrency

Active == { j \in DOMAIN queue : queue[j].state = "active" }

\* the slots of the worker, and those that are running the processor
WorkerSlots == 1 .. concurrency
BusySlots == UNION { queue[j].workers : j \in DOMAIN queue }
FreeSlot == CHOOSE w \in WorkerSlots \ BusySlots :
                \A v \in WorkerSlots \ BusySlots : w <= v

\* the queue without job j: removeOnComplete
Remove(j) == [k \in DOMAIN queue \ {j} |-> queue[k]]

\* the processor returned: the job is completed and removed from the queue;
\* the completed event carries the job with the attempts that failed before
Completed(j, alertTriggered) ==
    /\ queue' = Remove(j)
    /\ completedLog' = completedLog \cup
           {[id |-> j, data |-> queue[j].data, attemptsMade |-> queue[j].attemptsMade,
             returnvalue |-> [success |-> TRUE, alertTriggered |-> alertTriggered]]}

\* the retry policy with removeOnFail: the job of a third throw is removed
Failed_DiscardsDead(j) ==
    /\ queue' = IF queue[j].attemptsMade + 1 < attempts
                THEN [queue EXCEPT ![j].attemptsMade = @ + 1,
                                   ![j].pc = "",
                                   ![j].alertRule = NoRule,
                                   ![j].workers = {},
                                   ![j].state = "delayed"]
                ELSE Remove(j)
    /\ UNCHANGED completedLog

\* the retry policy off by one: a job is retried after its third throw
Failed_ExtraAttempt(j) ==
    /\ queue' = [queue EXCEPT ![j].attemptsMade = @ + 1,
                              ![j].pc = "",
                              ![j].alertRule = NoRule,
                              ![j].workers = {},
                              ![j].state = IF queue[j].attemptsMade + 1 <= attempts
                                           THEN "delayed" ELSE "failed"]
    /\ UNCHANGED completedLog

\* the processor threw: the job is retried after the backoff delay while
\* attempts remain, and is kept as failed once they are used up
Failed(j) ==
    /\ queue' = [queue EXCEPT ![j].attemptsMade = @ + 1,
                              ![j].pc = "",
                              ![j].alertRule = NoRule,
                              ![j].workers = {},
                              ![j].state = IF queue[j].attemptsMade + 1 < attempts
                                           THEN "delayed" ELSE "failed"]
    /\ UNCHANGED completedLog

\* the fetch of a worker that takes every waiting job at once
Fetch_NoLimit(j) ==
    /\ j \in DOMAIN queue
    /\ queue[j].state = "waiting"
    /\ queue' = [queue EXCEPT ![j].state = "active", ![j].pc = "lookup",
                              ![j].workers =
                                  @ \cup (IF WorkerSlots \ BusySlots = {}
                                             THEN {1} ELSE {FreeSlot})]
    /\ UNCHANGED << users, txVars, ruleVars, nextJobId, req, workerVars, probe, spending >>

\* the fetch also taking a job that another slot is processing
Fetch_TakesActive(j) ==
    /\ j \in DOMAIN queue
    /\ queue[j].state \in {"waiting", "active"}
    /\ Cardinality(Active) < concurrency
    /\ queue' = [queue EXCEPT ![j].state = "active", ![j].pc = "lookup",
                              ![j].workers = @ \cup {FreeSlot}]
    /\ UNCHANGED << users, txVars, ruleVars, nextJobId, req, workerVars, probe, spending >>

\* a free worker slot takes a waiting job and calls the processor, which
\* calls AlertService.checkAndTriggerAlert
Fetch(j) ==
    /\ j \in DOMAIN queue
    /\ queue[j].state = "waiting"
    /\ Cardinality(Active) < concurrency
    /\ queue' = [queue EXCEPT ![j].state = "active", ![j].pc = "lookup",
                              ![j].workers = @ \cup {FreeSlot}]
    /\ UNCHANGED << users, txVars, ruleVars, nextJobId, req, workerVars, probe, spending >>

\* the promotion that serves only the first retry of a job
Promote_OnlyFirstRetry(j) ==
    /\ j \in DOMAIN queue
    /\ queue[j].state = "delayed"
    /\ queue[j].attemptsMade < 2
    /\ queue' = [queue EXCEPT ![j].state = "waiting"]
    /\ UNCHANGED << users, txVars, ruleVars, nextJobId, req, workerVars, probe, spending >>

\* the promotion also taking jobs that used up their attempts
Promote_RequeuesDead(j) ==
    /\ j \in DOMAIN queue
    /\ queue[j].state \in {"delayed", "failed"}
    /\ queue' = [queue EXCEPT ![j].state = "waiting"]
    /\ UNCHANGED << users, txVars, ruleVars, nextJobId, req, workerVars, probe, spending >>

\* the backoff delay of a failed attempt has passed
Promote(j) ==
    /\ j \in DOMAIN queue
    /\ queue[j].state = "delayed"
    /\ queue' = [queue EXCEPT ![j].state = "waiting"]
    /\ UNCHANGED << users, txVars, ruleVars, nextJobId, req, workerVars, probe, spending >>

\* the test of the rule without the isActive flag
NoActiveRule_IgnoresFlag(alertRule) == alertRule = NoRule

\* !alertRule || !alertRule.isActive
NoActiveRule(alertRule) == alertRule = NoRule \/ ~alertRule.isActive

\* the lookup that first looks for the transaction of the job and completes
\* the job with no alert when the transaction is gone
Lookup_SkipsDeleted(j, dbOk) ==
    /\ j \in DOMAIN queue
    /\ queue[j].state = "active" /\ queue[j].pc = "lookup"
    /\ LET alertRule == findByUserAndCategory(queue[j].data.userId, queue[j].data.category)
           gone == \A t \in transactions : t.id # queue[j].data.transactionId
       IN IF ~dbOk
          THEN Failed(j)
          ELSE IF gone \/ NoActiveRule(alertRule)
          THEN Completed(j, FALSE)
          ELSE /\ queue' = [queue EXCEPT ![j].pc = "aggregate",
                                         ![j].alertRule = alertRule]
               /\ UNCHANGED completedLog
    /\ UNCHANGED << users, txVars, ruleVars, nextJobId, req, alerts, probe, spending >>

\* step 1 of checkAndTriggerAlert: the rule lookup. Without an active rule
\* the evaluation returns null and the job completes with no alert.
Lookup(j, dbOk) ==
    /\ j \in DOMAIN queue
    /\ queue[j].state = "active" /\ queue[j].pc = "lookup"
    /\ LET alertRule == findByUserAndCategory(queue[j].data.userId, queue[j].data.category)
       IN IF ~dbOk
          THEN Failed(j)
          ELSE IF NoActiveRule(alertRule)
          THEN Completed(j, FALSE)
          ELSE /\ queue' = [queue EXCEPT ![j].pc = "aggregate",
                                         ![j].alertRule = alertRule]
               /\ UNCHANGED completedLog
    /\ UNCHANGED << users, txVars, ruleVars, nextJobId, req, alerts, probe, spending >>

\* the event reporting the threshold of the rule as it is stored when the
\* event is built, not the one of the rule read in step 1
AlertEvent_CurrentRule(userId, category, alertRule, totalSpent) ==
    [userId |-> userId, category |-> category,
     threshold |-> findByUserAndCategory(userId, category).threshold,
     totalSpent |-> totalSpent,
     message |-> [category |-> category, spent |-> totalSpent,
                  limit |-> alertRule.threshold]]

\* the AlertEvent of lines 104-111
AlertEvent(userId, category, alertRule, totalSpent) ==
    [userId |-> userId, category |-> category, threshold |-> alertRule.threshold,
     totalSpent |-> totalSpent,
     message |-> [category |-> category, spent |-> totalSpent,
                  limit |-> alertRule.threshold]]

\* the comparison with a total equal to the threshold counted as exceeding it
Exceeded_AtThreshold(totalSpent, alertRule) == totalSpent >= alertRule.threshold

\* step 3 of checkAndTriggerAlert: whether the threshold is exceeded
Exceeded(totalSpent, alertRule) == totalSpent > alertRule.threshold

\* the evaluation that builds and logs the event before the call that can
\* throw: an attempt that fails has emitted
Aggregate_EmitsBeforeFailing(j, dbOk) ==
    /\ j \in DOMAIN queue
    /\ queue[j].state = "active" /\ queue[j].pc = "aggregate"
    /\ LET userId == queue[j].data.userId
           category == queue[j].data.category
           totalSpent == getTotalByCategory(userId, category)
           emitted == alerts \cup
                          {[job |-> j,
                            event |-> AlertEvent(userId, category, queue[j].alertRule,
                                                 totalSpent)]}
       IN IF Exceeded(totalSpent, queue[j].alertRule)
          THEN /\ alerts' = emitted
               /\ IF dbOk THEN Completed(j, TRUE) ELSE Failed(j)
          ELSE /\ UNCHANGED alerts
               /\ IF dbOk THEN Completed(j, FALSE) ELSE Failed(j)
    /\ UNCHANGED << users, txVars, ruleVars, nextJobId, req, probe, spending >>

\* the evaluation with a return channel: a failed aggregation is reported in
\* the response of the request that enqueued the job
Aggregate_ReportsToCaller(j, dbOk) ==
    /\ j \in DOMAIN queue
    /\ queue[j].state = "active" /\ queue[j].pc = "aggregate"
    /\ LET userId == queue[j].data.userId
           category == queue[j].data.category
           totalSpent == getTotalByCategory(userId, category)
       IN IF ~dbOk
          THEN /\ Failed(j)
               /\ UNCHANGED alerts
               /\ req' = [r \in RequestIds |->
                            IF req[r].transaction.id = queue[j].data.transactionId
                            THEN Throw(r, "alert evaluation failed") ELSE req[r]]
          ELSE /\ req' = req
               /\ IF Exceeded(totalSpent, queue[j].alertRule)
                  THEN /\ alerts' = alerts \cup
                             {[job |-> j,
                               event |-> AlertEvent(userId, category, queue[j].alertRule,
                                                    totalSpent)]}
                       /\ Completed(j, TRUE)
                  ELSE /\ UNCHANGED alerts
                       /\ Completed(j, FALSE)
    /\ UNCHANGED << users, txVars, ruleVars, nextJobId, probe, spending >>

\* the evaluation that switches the rule off once it has alerted
Aggregate_DeactivatesRule(j, dbOk) ==
    /\ j \in DOMAIN queue
    /\ queue[j].state = "active" /\ queue[j].pc = "aggregate"
    /\ LET userId == queue[j].data.userId
           category == queue[j].data.category
           totalSpent == getTotalByCategory(userId, category)
       IN IF ~dbOk
          THEN Failed(j) /\ UNCHANGED << alerts, rules >>
          ELSE IF Exceeded(totalSpent, queue[j].alertRule)
          THEN /\ alerts' = alerts \cup
                     {[job |-> j,
                       event |-> AlertEvent(userId, category, queue[j].alertRule, totalSpent)]}
               /\ rules' = { IF x.id = queue[j].alertRule.id
                             THEN [x EXCEPT !.isActive = FALSE] ELSE x : x \in rules }
               /\ Completed(j, TRUE)
          ELSE /\ UNCHANGED << alerts, rules >>
               /\ Completed(j, FALSE)
    /\ UNCHANGED << users, txVars, nextRuleId, ruleReq, nextJobId, req, probe, spending >>

\* the evaluation that compares the amount of the job's transaction, not the
\* total, with the threshold
Aggregate_OwnAmount(j, dbOk) ==
    /\ j \in DOMAIN queue
    /\ queue[j].state = "active" /\ queue[j].pc = "aggregate"
    /\ LET userId == queue[j].data.userId
           category == queue[j].data.category
           totalSpent == getTotalByCategory(userId, category)
       IN IF ~dbOk
          THEN Failed(j) /\ UNCHANGED alerts
          ELSE IF Exceeded(queue[j].data.amount, queue[j].alertRule)
          THEN /\ alerts' = alerts \cup
                     {[job |-> j,
                       event |-> AlertEvent(userId, category, queue[j].alertRule, totalSpent)]}
               /\ Completed(j, TRUE)
          ELSE /\ UNCHANGED alerts
               /\ Completed(j, FALSE)
    /\ UNCHANGED << users, txVars, ruleVars, nextJobId, req, probe, spending >>

\* the evaluation that emits no event when one was already emitted for the
\* pair
Aggregate_Deduplicates(j, dbOk) ==
    /\ j \in DOMAIN queue
    /\ queue[j].state = "active" /\ queue[j].pc = "aggregate"
    /\ LET userId == queue[j].data.userId
           category == queue[j].data.category
           totalSpent == getTotalByCategory(userId, category)
           emitted == \E a \in alerts : /\ a.event.userId = userId
                                        /\ a.event.category = category
       IN IF ~dbOk
          THEN Failed(j) /\ UNCHANGED alerts
          ELSE IF Exceeded(totalSpent, queue[j].alertRule) /\ ~emitted
          THEN /\ alerts' = alerts \cup
                     {[job |-> j,
                       event |-> AlertEvent(userId, category, queue[j].alertRule, totalSpent)]}
               /\ Completed(j, TRUE)
          ELSE /\ UNCHANGED alerts
               /\ Completed(j, FALSE)
    /\ UNCHANGED << users, txVars, ruleVars, nextJobId, req, probe, spending >>

\* the aggregation with its exception caught and answered by null: the job
\* completes with no alert
Aggregate_SwallowsError(j, dbOk) ==
    /\ j \in DOMAIN queue
    /\ queue[j].state = "active" /\ queue[j].pc = "aggregate"
    /\ LET userId == queue[j].data.userId
           category == queue[j].data.category
           totalSpent == getTotalByCategory(userId, category)
       IN IF dbOk /\ Exceeded(totalSpent, queue[j].alertRule)
          THEN /\ alerts' = alerts \cup
                     {[job |-> j,
                       event |-> AlertEvent(userId, category, queue[j].alertRule, totalSpent)]}
               /\ Completed(j, TRUE)
          ELSE /\ UNCHANGED alerts
               /\ Completed(j, FALSE)
    /\ UNCHANGED << users, txVars, ruleVars, nextJobId, req, probe, spending >>

\* steps 2 and 3 of checkAndTriggerAlert: the total is read and compared
\* with the threshold of the rule read in step 1
Aggregate(j, dbOk) ==
    /\ j \in DOMAIN queue
    /\ queue[j].state = "active" /\ queue[j].pc = "aggregate"
    /\ LET userId == queue[j].data.userId
           category == queue[j].data.category
           totalSpent == getTotalByCategory(userId, category)
       IN IF ~dbOk
          THEN Failed(j) /\ UNCHANGED alerts
          ELSE IF Exceeded(totalSpent, queue[j].alertRule)
          THEN /\ alerts' = alerts \cup
                     {[job |-> j,
                       event |-> AlertEvent(userId, category, queue[j].alertRule, totalSpent)]}
               /\ Completed(j, TRUE)
          ELSE /\ UNCHANGED alerts
               /\ Completed(j, FALSE)
    /\ UNCHANGED << users, txVars, ruleVars, nextJobId, req, probe, spending >>

\* a database call awaited by checkAndTriggerAlert never returns: the await
\* has no timeout and the processor cannot be cancelled, so the job stays
\* active and keeps its worker slot
Hang(j) ==
    /\ j \in DOMAIN queue
    /\ queue[j].state = "active" /\ queue[j].pc \in {"lookup", "aggregate"}
    /\ queue' = [queue EXCEPT ![j].pc = "hung"]
    /\ UNCHANGED << users, txVars, ruleVars, nextJobId, req, workerVars, probe, spending >>

----------------------------------------------------------------------------
(* Rule management: /api/alert-rules *)

Bool(b) == [t |-> "boolean", s |-> "", n |-> IF b THEN 1 ELSE 0]

RuleUserIds == {Undefined} \cup {Str(u) : u \in UserIds}
RuleCategories == {Undefined, Str("Food"), Str("Shopping"), Str("Other")}
RuleThresholds == {Undefined, Str("50"), Num(0)} \cup {Num(t) : t \in Thresholds}
RuleFlags == {Undefined, Bool(TRUE), Bool(FALSE), Str("yes")}

PipelineRuleBodies ==
    [userId : {Str("u1")}, category : {Str("Food")},
     threshold : {Num(t) : t \in Thresholds}]

PipelineUpdateBodies ==
    {[threshold |-> Undefined, isActive |-> Bool(FALSE)],
     [threshold |-> Num(100), isActive |-> Undefined]}

\* the validation of POST /api/alert-rules: "" when the body passes
RuleValidationError(body) ==
    IF ~Truthy(body.userId) \/ ~Truthy(body.category) \/ body.threshold.t = "undefined"
    THEN "Missing required fields: userId, category, threshold"
    ELSE IF ~(body.category.t = "string" /\ isValidCategory(body.category.s))
    THEN "Invalid category"
    ELSE IF body.threshold.t # "number" \/ body.threshold.n <= 0
    THEN "Threshold must be a positive number"
    ELSE ""

\* the exchange of a rule-management handler: the request, whether the
\* repository was called, and the response
RuleBody(userId, category, threshold, isActive) ==
    [userId |-> userId, category |-> category, threshold |-> threshold,
     isActive |-> isActive]

RuleResponse(statusCode, error, data) ==
    [statusCode |-> statusCode, success |-> (error = ""), error |-> error, data |-> data]

RuleRequest(op, id, body, storeCalled, response) ==
    [op |-> op, id |-> id, body |-> body, storeCalled |-> storeCalled,
     response |-> response]

NoRuleRequest ==
    RuleRequest("", 0, RuleBody(Undefined, Undefined, Undefined, Undefined), FALSE,
                RuleResponse(0, "", NoRule))

\* the insert without the foreign key of userId to the User table
CreateError_NoForeignKey(body, dbOk) ==
    IF ~dbOk THEN "database error"
    ELSE IF findByUserAndCategory(body.userId.s, body.category.s) # NoRule
    THEN "Unique constraint failed"
    ELSE ""

\* the insert without the unique constraint on (userId, category)
CreateError_NoUniqueKey(body, dbOk) ==
    IF ~dbOk THEN "database error"
    ELSE IF body.userId.s \notin users THEN "Foreign key constraint failed"
    ELSE ""

\* the error of prisma.alertRule.create: "" when the row is inserted. The
\* insert fails on a failed write, on an unknown user (foreign key) and on a
\* second rule for the (userId, category) key (unique constraint).
CreateError(body, dbOk) ==
    IF ~dbOk THEN "database error"
    ELSE IF body.userId.s \notin users THEN "Foreign key constraint failed"
    ELSE IF findByUserAndCategory(body.userId.s, body.category.s) # NoRule
    THEN "Unique constraint failed"
    ELSE ""

\* POST /api/alert-rules -> AlertService.createAlertRule ->
\* AlertRuleRepository.create
CreateRule(body, dbOk) ==
    LET request == RuleBody(body.userId, body.category, body.threshold, Undefined)
        row == [id |-> nextRuleId, userId |-> body.userId.s,
                category |-> body.category.s, threshold |-> body.threshold.n,
                isActive |-> TRUE]
    IN
    /\ IF RuleValidationError(body) # ""
       THEN /\ UNCHANGED << rules, nextRuleId >>
            /\ ruleReq' = RuleRequest("POST", 0, request, FALSE,
                              RuleResponse(400, RuleValidationError(body), NoRule))
       ELSE IF CreateError(body, dbOk) = ""
       THEN /\ rules' = rules \cup {row}
            /\ nextRuleId' = nextRuleId + 1
            /\ ruleReq' = RuleRequest("POST", 0, request, TRUE,
                              RuleResponse(201, "", row))
       ELSE /\ UNCHANGED << rules, nextRuleId >>
            /\ ruleReq' = RuleRequest("POST", 0, request, TRUE,
                              RuleResponse(500, CreateError(body, dbOk), NoRule))
    /\ UNCHANGED << users, txVars, queueVars, req, workerVars, probe, spending >>

\* the validation of PATCH /api/alert-rules/[id]: "" when the body passes
UpdateValidationError(body) ==
    IF body.threshold.t = "undefined" /\ body.isActive.t = "undefined"
    THEN "At least one field must be provided: threshold or isActive"
    ELSE IF body.threshold.t # "undefined"
            /\ (body.threshold.t # "number" \/ body.threshold.n <= 0)
    THEN "Threshold must be a positive number"
    ELSE ""

\* the update that writes the column default of isActive when the flag is not
\* supplied
Updated_ResetsFlag(row, body) ==
    [row EXCEPT !.threshold = IF body.threshold.t # "undefined"
                              THEN body.threshold.n ELSE @,
                !.isActive = IF body.isActive.t # "undefined"
                             THEN body.isActive.n = 1 ELSE TRUE]

\* the row after prisma.alertRule.update with the fields supplied
Updated(row, body) ==
    [row EXCEPT !.threshold = IF body.threshold.t # "undefined"
                              THEN body.threshold.n ELSE @,
                !.isActive = IF body.isActive.t # "undefined"
                             THEN body.isActive.n = 1 ELSE @]

\* the row with the given id, or NoRule
RuleById(id) ==
    IF \E x \in rules : x.id = id THEN CHOOSE x \in rules : x.id = id ELSE NoRule

\* the error of prisma.alertRule.update: "" when the row is updated. The
\* update fails on a failed write, on an isActive that is not a boolean and
\* on an unknown id.
UpdateError(id, body, dbOk) ==
    IF ~dbOk THEN "database error"
    ELSE IF body.isActive.t \notin {"undefined", "boolean"}
    THEN "Invalid value provided"
    ELSE IF RuleById(id) = NoRule THEN "Record to update not found"
    ELSE ""

\* PATCH /api/alert-rules/[id] -> AlertService.updateAlertRule ->
\* AlertRuleRepository.update
UpdateRule(id, body, dbOk) ==
    LET request == RuleBody(Undefined, Undefined, body.threshold, body.isActive)
    IN
    /\ IF UpdateValidationError(body) # ""
       THEN /\ UNCHANGED rules
            /\ ruleReq' = RuleRequest("PATCH", id, request, FALSE,
                              RuleResponse(400, UpdateValidationError(body), NoRule))
       ELSE IF UpdateError(id, body, dbOk) = ""
       THEN /\ rules' = { IF x.id = id THEN Updated(x, body) ELSE x : x \in rules }
            /\ ruleReq' = RuleRequest("PATCH", id, request, TRUE,
                              RuleResponse(200, "", Updated(RuleById(id), body)))
       ELSE /\ UNCHANGED rules
            /\ ruleReq' = RuleRequest("PATCH", id, request, TRUE,
                              RuleResponse(500, UpdateError(id, body, dbOk), NoRule))
    /\ UNCHANGED << users, txVars, nextRuleId, queueVars, req, workerVars, probe, spending >>

\* DELETE /api/alert-rules/[id] -> AlertService.deleteAlertRule ->
\* AlertRuleRepository.delete; the delete fails on a failed write and on an
\* unknown id
DeleteRule(id, dbOk) ==
    LET request == RuleBody(Undefined, Undefined, Undefined, Undefined)
    IN
    /\ IF dbOk /\ RuleById(id) # NoRule
       THEN /\ rules' = { x \in rules : x.id # id }
            /\ ruleReq' = RuleRequest("DELETE", id, request, TRUE,
                              RuleResponse(200, "", RuleById(id)))
       ELSE /\ UNCHANGED rules
            /\ ruleReq' = RuleRequest("DELETE", id, request, TRUE,
                              RuleResponse(500, IF dbOk THEN "Record to delete does not exist"
                                                ELSE "database error", NoRule))
    /\ UNCHANGED << users, txVars, nextRuleId, queueVars, req, workerVars, probe, spending >>

----------------------------------------------------------------------------
(* TransactionService.deleteTransaction *)

\* prisma.transaction.findUnique on the id: the row or null
findById(id) ==
    IF \E t \in transactions : t.id = id
    THEN CHOOSE t \in transactions : t.id = id
    ELSE NoTransaction

\* the check that lets any user delete a stored transaction
deleteTransactionError_NoOwnerCheck(transactionId, userId, dbOk) ==
    IF ~dbOk THEN "database error"
    ELSE IF findById(transactionId) = NoTransaction
    THEN "Transaction not found or unauthorized"
    ELSE ""

\* the error thrown by deleteTransaction, "" when it deletes: a failed call,
\* an unknown id and a transaction of another user all throw
deleteTransactionError(transactionId, userId, dbOk) ==
    IF ~dbOk THEN "database error"
    ELSE IF findById(transactionId) = NoTransaction
            \/ findById(transactionId).userId # userId
    THEN "Transaction not found or unauthorized"
    ELSE ""

\* the transaction is read and must belong to the user; then
\* TransactionRepository.delete removes the row. An unknown id, another
\* user's transaction and a failed call all throw and delete nothing.
deleteTransaction(transactionId, userId, dbOk) ==
    /\ IF deleteTransactionError(transactionId, userId, dbOk) = ""
       THEN transactions' = { t \in transactions : t.id # transactionId }
       ELSE UNCHANGED transactions
    /\ UNCHANGED << users, nextTxId, ruleVars, queueVars, req, workerVars, probe, spending >>

----------------------------------------------------------------------------
(* GET /api/spending and TransactionService.getSpendingSummary *)

\* the summary object before the loop: no entry
NoSummary == [c \in {} |-> 0]

SpendingResponse(statusCode, error, data) ==
    [statusCode |-> statusCode, success |-> (error = ""), error |-> error, data |-> data]

\* the handler: its query parameter, the index in ALLOWED_CATEGORIES of the
\* category that the loop reads next, the summary built so far, the response
NoSpending ==
    [pc |-> "idle", userId |-> Null, next |-> 1, summary |-> NoSummary,
     response |-> SpendingResponse(0, "", NoSummary)]

\* summary[category] = total
WithEntry(summary, category, total) ==
    [c \in DOMAIN summary \cup {category} |->
        IF c = category THEN total ELSE summary[c]]

\* the handler reads userId from the query; without it the answer is 400,
\* with it getSpendingSummary starts on the first category
GetSpending(userId) ==
    /\ spending.pc \in {"idle", "done"}
    /\ spending' =
           IF ~Truthy(userId)
           THEN [NoSpending EXCEPT
                    !.pc = "done", !.userId = userId,
                    !.response = SpendingResponse(
                        400, "Missing required query parameter: userId", NoSummary)]
           ELSE [NoSpending EXCEPT !.pc = "reading", !.userId = userId]
    /\ UNCHANGED << users, txVars, ruleVars, queueVars, req, workerVars, probe >>

\* the loop leaving out the categories in which nothing was spent
ReadCategory_SkipsZero(dbOk) ==
    /\ spending.pc = "reading"
    /\ LET category == ALLOWED_CATEGORIES[spending.next]
           total == getTotalByCategory(spending.userId.s, category)
           summary == IF total = 0 THEN spending.summary
                      ELSE WithEntry(spending.summary, category, total)
       IN spending' =
              IF ~dbOk
              THEN [spending EXCEPT !.pc = "done",
                       !.response = SpendingResponse(500, "database error", NoSummary)]
              ELSE IF spending.next < Len(ALLOWED_CATEGORIES)
              THEN [spending EXCEPT !.next = @ + 1, !.summary = summary]
              ELSE [spending EXCEPT !.pc = "done", !.summary = summary,
                       !.response = SpendingResponse(200, "", summary)]
    /\ UNCHANGED << users, txVars, ruleVars, queueVars, req, workerVars, probe >>

\* one turn of the loop of getSpendingSummary: the total of the next category
\* is awaited and written in the summary; an error is rethrown and answered
\* 500; after the last category the summary is returned and answered 200
ReadCategory(dbOk) ==
    /\ spending.pc = "reading"
    /\ LET category == ALLOWED_CATEGORIES[spending.next]
           total == getTotalByCategory(spending.userId.s, category)
           summary == WithEntry(spending.summary, category, total)
       IN spending' =
              IF ~dbOk
              THEN [spending EXCEPT !.pc = "done",
                       !.response = SpendingResponse(500, "database error", NoSummary)]
              ELSE IF spending.next < Len(ALLOWED_CATEGORIES)
              THEN [spending EXCEPT !.next = @ + 1, !.summary = summary]
              ELSE [spending EXCEPT !.pc = "done", !.summary = summary,
                       !.response = SpendingResponse(200, "", summary)]
    /\ UNCHANGED << users, txVars, ruleVars, queueVars, req, workerVars, probe >>

----------------------------------------------------------------------------
(* The pipeline *)

NoProbe == [description |-> NoText, reply |-> Reply("throws", Undefined, Undefined),
            result |-> NoClassification, done |-> FALSE]

Init ==
    /\ users = {}
    /\ transactions = {}
    /\ nextTxId = 1
    /\ rules = {}
    /\ ruleReq = NoRuleRequest
    /\ nextRuleId = 1
    /\ queue = [j \in {} |-> NewJob(JobData("", NoTransaction))]
    /\ nextJobId = 1
    /\ req = [r \in RequestIds |-> IdleRequest]
    /\ alerts = {}
    /\ completedLog = {}
    /\ probe = NoProbe
    /\ spending = NoSpending

Bodies == [userId : BodyUserIds, description : BodyDescriptions, amount : BodyAmounts]
RuleBodies == [userId : RuleUserIds, category : RuleCategories, threshold : RuleThresholds]
UpdateBodies == [threshold : RuleThresholds, isActive : RuleFlags]
RuleIds == 1 .. MaxRules
JobIds == 1 .. nextJobId

\* the ingestion handlers in the slots R, with bodies, classifier replies and
\* outcomes of the database calls and of alertQueue.add drawn from the given
\* sets; a new request is taken only while every request in flight can still
\* get an id
IngestionWith(R, bodies, replies, dbOks, redisOks, maxTx) ==
    \/ \E r \in R, body \in bodies :
          nextTxId + Cardinality(InFlight) <= maxTx /\ Post(r, body)
    \/ \E r \in R, reply \in replies : Classify(r, reply)
    \/ \E r \in R, dbOk \in dbOks : FindUser(r, dbOk)
    \/ \E r \in R, dbOk \in dbOks : CreateUser(r, dbOk)
    \/ \E r \in R, dbOk \in dbOks : InsertTx(r, dbOk)
    \/ \E r \in R, redisOk \in redisOks : Enqueue(r, redisOk)

\* the same with one set of outcomes for the database and Redis calls
Ingestion(R, bodies, replies, oks, maxTx) ==
    IngestionWith(R, bodies, replies, oks, oks, maxTx)

\* the worker pool processing jobs, with the outcomes of the database calls
\* drawn from oks
Processing(oks) ==
    \/ \E j \in JobIds : Fetch(j)
    \/ \E j \in JobIds, dbOk \in oks : Lookup(j, dbOk)
    \/ \E j \in JobIds, dbOk \in oks : Aggregate(j, dbOk)

\* the worker pool with failing attempts and their retries
Evaluation ==
    \/ Processing(BOOLEAN)
    \/ \E j \in JobIds : Promote(j)

\* the rule-management handlers, until maxRules rules have been created
Management(bodies, updates, oks, maxRules) ==
    \/ \E body \in bodies, dbOk \in oks : nextRuleId <= maxRules /\ CreateRule(body, dbOk)
    \/ \E id \in 1 .. maxRules, body \in updates, dbOk \in oks : UpdateRule(id, body, dbOk)
    \/ \E id \in 1 .. maxRules, dbOk \in oks : DeleteRule(id, dbOk)

\* the pipeline: requests whose dispatch may fail, the worker, and rules
\* being created, deactivated and given a new threshold meanwhile
Next ==
    \/ IngestionWith({1}, PipelineBodies, PipelineReplies, {TRUE}, BOOLEAN, MaxTx)
    \/ Processing({TRUE})
    \/ \E body \in PipelineRuleBodies : nextRuleId <= MaxRules /\ CreateRule(body, TRUE)
    \/ \E id \in RuleIds, body \in PipelineUpdateBodies : UpdateRule(id, body, TRUE)

Spec == Init /\ [][Next]_vars

----------------------------------------------------------------------------
(* The rule management alone, on every request body *)

\* user u1 has been provisioned by an earlier ingestion, u2 has not
RuleInit ==
    /\ users = {"u1"}
    /\ transactions = {}
    /\ nextTxId = 1
    /\ rules = {}
    /\ ruleReq = NoRuleRequest
    /\ nextRuleId = 1
    /\ queue = [j \in {} |-> NewJob(JobData("", NoTransaction))]
    /\ nextJobId = 1
    /\ req = [r \in RequestIds |-> IdleRequest]
    /\ alerts = {}
    /\ completedLog = {}
    /\ probe = NoProbe
    /\ spending = NoSpending

RuleNext == Management(RuleBodies, UpdateBodies, BOOLEAN, RuleMaxRules)

RuleSpec == RuleInit /\ [][RuleNext]_vars

----------------------------------------------------------------------------
(* The worker with failing attempts and retries *)

RetryBodies ==
    [userId : {Str("u1")}, description : {Text(<< "c" >>)},
     amount : {Num(15), Num(85)}]

RetryRuleBodies ==
    {[userId |-> Str("u1"), category |-> Str("Food"), threshold |-> Num(20)]}

\* requests that all succeed feed the queue; the database calls of the
\* evaluations succeed or throw
RetryNext ==
    \/ Ingestion({1}, RetryBodies, {Reply("object", Str("Food"), Num(90))},
                 {TRUE}, RetryMaxTx)
    \/ Evaluation
    \/ \E body \in RetryRuleBodies : nextRuleId <= MaxRules /\ CreateRule(body, TRUE)

RetrySpec == Init /\ [][RetryNext]_vars

\* the same with one request body: the amounts play no part in whether a job
\* terminates
RetryLiveBodies ==
    [userId : {Str("u1")}, description : {Text(<< "c" >>)}, amount : {Num(85)}]

RetryLiveNext ==
    \/ Ingestion({1}, RetryLiveBodies, {Reply("object", Str("Food"), Num(90))},
                 {TRUE}, RetryMaxTx)
    \/ Evaluation
    \/ \E body \in RetryRuleBodies : nextRuleId <= MaxRules /\ CreateRule(body, TRUE)

\* the worker keeps taking jobs, its calls return and the backoff delays pass
RetryLiveSpec == Init /\ [][RetryLiveNext]_vars /\ WF_vars(Evaluation)

\* the same with database calls of the evaluation that may never return;
\* the worker still does every step that it can do
HangNext ==
    \/ RetryLiveNext
    \/ \E j \in JobIds : Hang(j)

HangLiveSpec == Init /\ [][HangNext]_vars /\ WF_vars(Evaluation)

----------------------------------------------------------------------------
(* Concurrent ingestion against one fixed active rule: the user of the rule
   and a second user, every transaction classified as Food, two requests in
   flight, every database call and every alertQueue.add succeeding, so that
   every job completes at its first attempt *)

OrderRule ==
    [id |-> 1, userId |-> "u1", category |-> "Food", threshold |-> 100,
     isActive |-> TRUE]

OrderInit ==
    /\ users = {"u1"}
    /\ transactions = {}
    /\ nextTxId = 1
    /\ rules = {OrderRule}
    /\ nextRuleId = 2
    /\ queue = [j \in {} |-> NewJob(JobData("", NoTransaction))]
    /\ nextJobId = 1
    /\ req = [r \in RequestIds |-> IdleRequest]
    /\ alerts = {}
    /\ completedLog = {}
    /\ ruleReq = NoRuleRequest
    /\ probe = NoProbe
    /\ spending = NoSpending

\* the requests of the user of the rule and of a user not yet known
OrderBodies ==
    RetryBodies \cup
    {[userId |-> Str("u2"), description |-> Text(<< "c" >>), amount |-> Num(85)]}

OrderNext ==
    \/ Ingestion({1, 2}, OrderBodies, {Reply("object", Str("Food"), Num(90))},
                 {TRUE}, OrderMaxTx)
    \/ Processing({TRUE})

OrderSpec == OrderInit /\ [][OrderNext]_vars

\* the same under fair scheduling: a request in flight goes on and the worker
\* keeps taking and finishing jobs
OrderLiveSpec == OrderSpec /\ WF_vars(OrderNext)

----------------------------------------------------------------------------
(* Evaluations against a store that does not change: the requests have
   returned, their transactions are stored and their jobs wait in the queue;
   the worker then processes the jobs, with attempts that fail and are
   retried, while no request and no rule management runs *)

\* the transaction of the i-th request, with the given amount
EvalTransaction(i, amount) ==
    [id |-> i, userId |-> "u1", description |-> << "c" >>, amount |-> amount,
     category |-> "Food", confidence |-> 90]

\* the rule of the pair: none, inactive, or active below or above the totals
EvalRuleSets ==
    {{}} \cup
    { {[id |-> 1, userId |-> "u1", category |-> "Food", threshold |-> t,
        isActive |-> b]} : t \in Thresholds, b \in BOOLEAN }

EvalInit ==
    \E amount \in [1 .. EvalJobs -> {15, 85}], ruleSet \in EvalRuleSets :
        /\ users = {"u1"}
        /\ transactions = { EvalTransaction(i, amount[i]) : i \in 1 .. EvalJobs }
        /\ nextTxId = EvalJobs + 1
        /\ rules = ruleSet
        /\ nextRuleId = Cardinality(ruleSet) + 1
        /\ queue = [j \in 1 .. EvalJobs |->
                      NewJob(JobData("u1", EvalTransaction(j, amount[j])))]
        /\ nextJobId = EvalJobs + 1
        /\ req = [r \in RequestIds |-> IdleRequest]
        /\ alerts = {}
        /\ completedLog = {}
        /\ ruleReq = NoRuleRequest
        /\ probe = NoProbe
        /\ spending = NoSpending

EvalSpec == EvalInit /\ [][Evaluation]_vars

----------------------------------------------------------------------------
(* The pipeline with transactions being deleted: requests of two users,
   the worker, a rule being created, and deleteTransaction called by either
   user on any id *)

StoreNext ==
    \/ Ingestion({1}, OrderBodies, PipelineReplies, {TRUE}, StoreMaxTx)
    \/ Processing({TRUE})
    \/ \E body \in RetryRuleBodies : nextRuleId <= MaxRules /\ CreateRule(body, TRUE)
    \/ \E id \in 1 .. StoreMaxTx, userId \in UserIds, dbOk \in BOOLEAN :
          deleteTransaction(id, userId, dbOk)

StoreSpec == Init /\ [][StoreNext]_vars

----------------------------------------------------------------------------
(* The ingestion by two requests at a time, of a known or a new user, with
   database calls that may fail *)

ProvisionBodies ==
    [userId : {Str("u1"), Str("u2")}, description : {Text(<< "c" >>)},
     amount : {Num(15)}]

ProvisionNext ==
    Ingestion({1, 2}, ProvisionBodies, PipelineReplies, BOOLEAN, ProvisionMaxTx)

ProvisionSpec == Init /\ [][ProvisionNext]_vars

----------------------------------------------------------------------------
(* The ingestion with a classifier that fails every time: the call throws,
   answers nothing, answers text that is not JSON, null, or an object that
   does not pass the validation; the description may be blank; the
   database and Redis calls may fail *)

FailingReplies ==
    { Reply("throws", Undefined, Undefined),
      Reply("empty", Undefined, Undefined),
      Reply("unparsable", Undefined, Undefined),
      Reply("null", Undefined, Undefined),
      Reply("object", Str("Other"), Num(90)),
      Reply("object", Str("Food"), Str("0.9")) }

FallbackBodies ==
    [userId : {Str("u1"), Str("u2")},
     description : {Text(<< " " >>), Text(<< "c" >>)},
     amount : {Num(15), Num(85)}]

FallbackNext == Ingestion({1}, FallbackBodies, FailingReplies, BOOLEAN, IngestMaxTx)

FallbackSpec == Init /\ [][FallbackNext]_vars

----------------------------------------------------------------------------
(* The worker pool with more jobs waiting than it has slots: the requests
   have returned, their transactions are stored and their jobs wait in the
   queue; the first is of the category of an active rule that its total
   exceeds, the others are of a category without a rule *)

PoolTransaction(i) ==
    [EvalTransaction(i, 85) EXCEPT
        !.category = IF i = 1 THEN "Food" ELSE "Shopping"]

PoolRule ==
    [id |-> 1, userId |-> "u1", category |-> "Food", threshold |-> 20,
     isActive |-> TRUE]

PoolInit ==
    /\ users = {"u1"}
    /\ transactions = { PoolTransaction(i) : i \in 1 .. PoolJobs }
    /\ nextTxId = PoolJobs + 1
    /\ rules = {PoolRule}
    /\ nextRuleId = 2
    /\ queue = [j \in 1 .. PoolJobs |-> NewJob(JobData("u1", PoolTransaction(j)))]
    /\ nextJobId = PoolJobs + 1
    /\ req = [r \in RequestIds |-> IdleRequest]
    /\ alerts = {}
    /\ completedLog = {}
    /\ ruleReq = NoRuleRequest
    /\ probe = NoProbe
    /\ spending = NoSpending

PoolSpec == PoolInit /\ [][Processing({TRUE})]_vars

----------------------------------------------------------------------------
(* Requests whose database and Redis calls may fail, and the worker with
   failing attempts and retries *)

ChannelNext ==
    \/ Ingestion({1}, RetryLiveBodies, {Reply("object", Str("Food"), Num(90))},
                 BOOLEAN, RetryMaxTx)
    \/ Evaluation
    \/ \E body \in RetryRuleBodies : nextRuleId <= MaxRules /\ CreateRule(body, TRUE)

ChannelSpec == Init /\ [][ChannelNext]_vars

----------------------------------------------------------------------------
(* The ingestion by two requests at a time, of a known or a new user, with
   every database call and every alertQueue.add answering *)

RaceNext ==
    Ingestion({1, 2}, ProvisionBodies, PipelineReplies, {TRUE}, ProvisionMaxTx)

RaceSpec == Init /\ [][RaceNext]_vars

----------------------------------------------------------------------------
(* The pipeline with the store changing between the enqueue of a job and its
   processing: transactions are added and deleted, the rule of the pair is
   created, given a new threshold and deactivated *)

\* an earlier request of u1 has been ingested and its job completed while
\* there was no rule
DecideFirst == EvalTransaction(1, 85)

DecideInit ==
    /\ users = {"u1"}
    /\ transactions = {DecideFirst}
    /\ nextTxId = 2
    /\ rules = {}
    /\ ruleReq = NoRuleRequest
    /\ nextRuleId = 1
    /\ queue = [j \in {} |-> NewJob(JobData("", NoTransaction))]
    /\ nextJobId = 2
    /\ req = [r \in RequestIds |-> IdleRequest]
    /\ alerts = {}
    /\ completedLog =
           {[id |-> 1, data |-> JobData("u1", DecideFirst), attemptsMade |-> 0,
             returnvalue |-> [success |-> TRUE, alertTriggered |-> FALSE]]}
    /\ probe = NoProbe
    /\ spending = NoSpending

\* the next requests: a small amount of u1, or a request of a new user
DecideBodies ==
    {[userId |-> Str("u1"), description |-> Text(<< "c" >>), amount |-> Num(15)],
     [userId |-> Str("u2"), description |-> Text(<< "c" >>), amount |-> Num(85)]}

DecideNext ==
    \/ Ingestion({1}, DecideBodies, {Reply("object", Str("Food"), Num(90))},
                 {TRUE}, DecideMaxTx + 1)
    \/ Processing({TRUE})
    \/ \E body \in RetryRuleBodies : nextRuleId <= MaxRules /\ CreateRule(body, TRUE)
    \/ \E id \in RuleIds, body \in PipelineUpdateBodies : UpdateRule(id, body, TRUE)
    \/ \E id \in 1 .. DecideMaxTx + 1 : deleteTransaction(id, "u1", TRUE)

DecideSpec == DecideInit /\ [][DecideNext]_vars

----------------------------------------------------------------------------
(* Requests that provision their users, and rules created for users that
   exist or do not, with database calls that may fail *)

IntegrityRuleBodies ==
    [userId : {Str("u1"), Str("u2")}, category : {Str("Food")},
     threshold : {Num(20)}]

IntegrityNext ==
    \/ Ingestion({1}, ProvisionBodies, PipelineReplies, BOOLEAN, ProvisionMaxTx)
    \/ \E body \in IntegrityRuleBodies, dbOk \in BOOLEAN :
          nextRuleId <= RuleMaxRules /\ CreateRule(body, dbOk)

IntegritySpec == Init /\ [][IntegrityNext]_vars

----------------------------------------------------------------------------
(* The spending summary asked for while transactions are ingested: requests
   of two users classified in two categories, and the query with or without
   a userId, with reads that may fail *)

SummaryBodies ==
    {[userId |-> Str("u1"), description |-> Text(<< "c" >>), amount |-> Num(15)],
     [userId |-> Str("u1"), description |-> Text(<< "c" >>), amount |-> Num(85)],
     [userId |-> Str("u2"), description |-> Text(<< "c" >>), amount |-> Num(85)]}

SummaryReplies ==
    { Reply("object", Str("Food"), Num(90)), Reply("object", Str("Transport"), Num(90)) }

SummaryQueries == {Null, Str(""), Str("u1"), Str("u2")}

SummaryNext ==
    \/ Ingestion({1}, SummaryBodies, SummaryReplies, {TRUE}, SummaryMaxTx)
    \/ \E userId \in SummaryQueries : GetSpending(userId)
    \/ \E dbOk \in BOOLEAN : ReadCategory(dbOk)

SummarySpec == Init /\ [][SummaryNext]_vars

----------------------------------------------------------------------------
(* The ingestion alone, on every request body *)

IngestNext == Ingestion({1}, Bodies, IngestReplies, BOOLEAN, IngestMaxTx)

IngestSpec == Init /\ [][IngestNext]_vars

----------------------------------------------------------------------------
(* The pipeline on a fixed workload: one user, every transaction classified
   as Food, the amounts of Workload in the order the requests arrive, a rule
   with threshold 100 and two requests in flight *)

Workload == << 5, 15, 85 >>

ScenarioBodies ==
    IF nextTxId + Cardinality(InFlight) \in DOMAIN Workload
    THEN {[userId |-> Str("u1"), description |-> Text(<< "c" >>),
           amount |-> Num(Workload[nextTxId + Cardinality(InFlight)])]}
    ELSE {}

ScenarioRuleBodies ==
    {[userId |-> Str("u1"), category |-> Str("Food"), threshold |-> Num(100)]}

\* two requests at a time submit the workload
ScenarioNext ==
    \/ Ingestion({1, 2}, ScenarioBodies, {Reply("object", Str("Food"), Num(90))},
                 {TRUE}, Len(Workload))
    \/ Processing({TRUE})
    \/ \E body \in ScenarioRuleBodies : nextRuleId <= MaxRules /\ CreateRule(body, TRUE)
    \/ \E id \in RuleIds : UpdateRule(id, [threshold |-> Undefined, isActive |-> Bool(FALSE)], TRUE)

ScenarioSpec == Init /\ [][ScenarioNext]_vars

----------------------------------------------------------------------------
(* A single call of AIService.classifyTransaction on every description and
   every reply of the classifier *)

ProbeDescriptions ==
    {NoText, Text(<< >>), Text(<< " " >>), Text(<< " ", "\t" >>),
     Text(<< "c" >>), Text(<< " ", "c", " " >>)}

ProbeCategories ==
    {Undefined, Null, Str(""), Num(1), Str("food"), Str("Other")}
        \cup {Str(ALLOWED_CATEGORIES[i]) : i \in DOMAIN ALLOWED_CATEGORIES}

ProbeConfidences ==
    {Undefined, Null, Str("0.9"), Num(-1), Num(0), Num(50), Num(95), Num(100), Num(101)}

ProbeReplies ==
    {Reply(k, Undefined, Undefined) : k \in {"throws", "empty", "unparsable", "null"}}
        \cup {Reply("object", c, x) : c \in ProbeCategories, x \in ProbeConfidences}

ClassifyInit ==
    /\ users = {}
    /\ transactions = {}
    /\ nextTxId = 1
    /\ rules = {}
    /\ ruleReq = NoRuleRequest
    /\ nextRuleId = 1
    /\ queue = [j \in {} |-> NewJob(JobData("", NoTransaction))]
    /\ nextJobId = 1
    /\ req = [r \in RequestIds |-> IdleRequest]
    /\ alerts = {}
    /\ completedLog = {}
    /\ probe \in [description : ProbeDescriptions, reply : ProbeReplies,
                  result : {NoClassification}, done : {FALSE}]
    /\ spending = NoSpending

ClassifyProbe ==
    /\ ~probe.done
    /\ probe' = [probe EXCEPT !.result = classifyTransaction(probe.description, probe.reply),
                              !.done = TRUE]
    /\ UNCHANGED << users, txVars, ruleVars, queueVars, req, workerVars, spending >>

ClassifyNext == ClassifyProbe

ClassifySpec == ClassifyInit /\ [][ClassifyNext]_vars

----------------------------------------------------------------------------
(* Properties of the ingestion: IngestSpec *)

Finished(r) == req[r].pc = "done"

\* the transaction of request r was written to the store
Persisted(r) == req[r].transaction # NoTransaction

\* the jobs ever added to the queue: those it holds and those completed
Produced ==
    {[id |-> j, data |-> queue[j].data] : j \in DOMAIN queue}
        \cup {[id |-> e.id, data |-> e.data] : e \in completedLog}

JobsOf(transactionId) == { job \in Produced : job.data.transactionId = transactionId }

\* C1: createTransaction returns the persisted Transaction whatever the
\* dispatch does: a finished request whose transaction was persisted is
\* answered 201 with that transaction, also when alertQueue.add failed.
C1_ReturnedDespiteDispatchFailure ==
    \A r \in RequestIds :
        Finished(r) /\ Persisted(r) =>
            /\ req[r].response.statusCode = 201
            /\ req[r].response.data = req[r].transaction

\* C2: a dispatch failure rolls nothing back: after a create that succeeded
\* and an add that failed, the transaction and its user are in the store
\* and no job exists for the transaction.
C2_DispatchFailureKeepsPersistence ==
    \A r \in RequestIds :
        Finished(r) /\ req[r].response.error = "queue add failed" =>
            /\ Persisted(r)
            /\ req[r].transaction \in transactions
            /\ req[r].transaction.userId = req[r].body.userId.s
            /\ req[r].body.userId.s \in users
            /\ JobsOf(req[r].transaction.id) = {}

C2_Witness ==
    \E r \in RequestIds :
        /\ Finished(r) /\ req[r].response.error = "queue add failed"
        /\ req[r].transaction \in transactions
        /\ req[r].transaction.category = "Food"

\* the requirements on a stored or returned transaction
WellFormed(t) ==
    /\ t.amount > 0
    /\ t.category \in {"Food", "Transport", "Utilities", "Entertainment", "Shopping"}
    /\ t.confidence >= 0 /\ t.confidence <= 100

C5_PersistenceFailureStep ==
    \A r \in RequestIds :
        req[r].pc \in {"createUser", "insertTx"} /\ req'[r].pc = "done" =>
            /\ req'[r].response.statusCode = 500
            /\ ~req'[r].response.success
            /\ req'[r].response.data = NoTransaction
            /\ ~Persisted(r)'
            /\ UNCHANGED << queue, nextJobId, transactions, nextTxId >>

C5_NoJobWithoutTransaction ==
    /\ \A job \in Produced : \E t \in transactions : t.id = job.data.transactionId
    /\ \A r \in RequestIds : req[r].pc = "enqueue" => req[r].transaction \in transactions

C5_PersistenceFailureEnqueuesNothing ==
    [](C5_NoJobWithoutTransaction) /\ [][C5_PersistenceFailureStep]_vars

C5_Witness ==
    \E r \in RequestIds :
        /\ Finished(r) /\ req[r].response.error = "transaction create failed"
        /\ req[r].body.userId.s \in users
        /\ DOMAIN queue = {}

\* the bodies the ingestion has to reject
Rejectable(body) ==
    \/ body.userId.t = "undefined" \/ body.userId = Str("")
    \/ body.description.t = "undefined" \/ body.description = Text(<< >>)
    \/ body.amount.t # "number"
    \/ body.amount.n <= 0

\* C6: a request with a missing userId, description or amount, a
\* non-numeric amount or an amount <= 0 is answered 400 in the step that
\* reads it, with no classification call, no write to the user and
\* transaction tables and no job; only other bodies get past the validation.
C6_RejectionStep ==
    \A r \in RequestIds :
        req[r].pc \in {"idle", "done"} /\ req'[r] # req[r] /\ Rejectable(req'[r].body) =>
            /\ req'[r].pc = "done"
            /\ req'[r].response.statusCode = 400
            /\ ~req'[r].aiCalled
            /\ ~Persisted(r)'
            /\ UNCHANGED << users, txVars, queueVars >>

C6_OnlyValidBodiesProceed ==
    \A r \in RequestIds :
        Rejectable(req[r].body) /\ req[r].pc # "idle" =>
            /\ Finished(r)
            /\ req[r].response.statusCode = 400
            /\ ~req[r].aiCalled
            /\ ~Persisted(r)

C6_InvalidRequestRejected ==
    [](C6_OnlyValidBodiesProceed) /\ [][C6_RejectionStep]_vars

C6_Witness ==
    \E r \in RequestIds :
        /\ Finished(r) /\ req[r].response.statusCode = 400
        /\ req[r].body.userId = Str("u1")
        /\ req[r].body.description = Text(<< "c" >>)
        /\ req[r].body.amount = Num(-5)
        /\ ~req[r].aiCalled
        /\ users = {} /\ transactions = {} /\ DOMAIN queue = {}

----------------------------------------------------------------------------
(* Properties of classifyTransaction: ClassifySpec *)

\* a reply that is returned as it is
Acceptable(reply) ==
    /\ reply.kind = "object"
    /\ reply.category.t = "string"
    /\ reply.category.s \in {"Food", "Transport", "Utilities", "Entertainment", "Shopping"}
    /\ reply.confidence.t = "number"
    /\ reply.confidence.n >= 0 /\ reply.confidence.n <= 100

Blank(description) ==
    description.t # "string" \/ \A i \in DOMAIN description.chars : description.chars[i] \in {" ", "\t"}

----------------------------------------------------------------------------
(* Properties of the whole pipeline: Spec *)

\* the jobs that a step adds to the queue
Added == { j \in DOMAIN queue' : j \notin DOMAIN queue }

\* the statement of C7 as it is written: once the call that persisted a
\* transaction is over, exactly one job exists for it
C7_ExactlyOneJobPerTransaction ==
    \A r \in RequestIds :
        Finished(r) /\ Persisted(r) =>
            Cardinality(JobsOf(req[r].transaction.id)) = 1

C7_JobsMatchTransactions ==
    /\ \A job \in Produced :
           \E t \in transactions :
               /\ t.id = job.data.transactionId
               /\ job.data.userId = t.userId
               /\ job.data.category = t.category
               /\ job.data.amount = t.amount
    /\ \A t \in transactions : Cardinality(JobsOf(t.id)) <= 1
    /\ \A r \in RequestIds :
           Finished(r) /\ Persisted(r) =>
               Cardinality(JobsOf(req[r].transaction.id)) =
                   IF req[r].response.statusCode = 201 THEN 1 ELSE 0

C7_EnqueueStep ==
    \A j \in Added :
        \E t \in transactions :
            /\ t \in transactions'
            /\ queue'[j].data.transactionId = t.id
            /\ JobsOf(t.id) = {}

\* C7: at most one job is ever produced for a persisted transaction: exactly
\* one once its createTransaction call has returned it (201), none when
\* alertQueue.add failed (500); the payload of every job equals the userId,
\* id, category and amount of a persisted transaction, and the step that
\* adds a job finds its transaction already in the store.
C7_OneJobPerDispatchedTransaction ==
    [](C7_JobsMatchTransactions) /\ [][C7_EnqueueStep]_vars

C7_Witness ==
    /\ \E t \in transactions : Cardinality(JobsOf(t.id)) = 1
    /\ \E t \in transactions : JobsOf(t.id) = {}
    /\ \E r \in RequestIds :
           /\ Finished(r) /\ req[r].response.statusCode = 201
           /\ Cardinality(JobsOf(req[r].transaction.id)) = 1
    /\ InFlight = {}

\* the sum of the amounts of the transactions stored for (userId, category)
Spend(userId, category) ==
    SumAmount({ t \in transactions : t.userId = userId /\ t.category = category })

\* the active rules stored for (userId, category)
ActiveRules(userId, category) ==
    { rule \in rules : rule.userId = userId /\ rule.category = category /\ rule.isActive }

\* the evaluation of job j is at the step named pc
Evaluating(j, pc) ==
    j \in DOMAIN queue /\ queue[j].state = "active" /\ queue[j].pc = pc

\* the step acts on job j
Touches(j) == j \notin DOMAIN queue' \/ queue'[j] # queue[j]

\* the events that the step emits for job j
Emitted(j) == { x.event : x \in { a \in alerts' \ alerts : a.job = j } }

\* the step ends the attempt of job j with an error
Raises(j) == j \in DOMAIN queue' /\ queue'[j].attemptsMade > queue[j].attemptsMade

\* the step completes job j with the given alertTriggered
Completes(j, alertTriggered) ==
    /\ j \notin DOMAIN queue'
    /\ completedLog' \ completedLog =
           {[id |-> j, data |-> queue[j].data, attemptsMade |-> queue[j].attemptsMade,
             returnvalue |-> [success |-> TRUE, alertTriggered |-> alertTriggered]]}

C8_LookupStep ==
    \A j \in DOMAIN queue :
        Evaluating(j, "lookup") /\ Touches(j) /\ ~Raises(j) =>
            LET found == ActiveRules(queue[j].data.userId, queue[j].data.category)
            IN /\ Emitted(j) = {}
               /\ IF found = {}
                  THEN Completes(j, FALSE)
                  ELSE /\ j \in DOMAIN queue'
                       /\ queue'[j].pc = "aggregate"
                       /\ queue'[j].alertRule \in found

C8_AggregateStep ==
    \A j \in DOMAIN queue :
        Evaluating(j, "aggregate") /\ Touches(j) /\ ~Raises(j) =>
            LET total == Spend(queue[j].data.userId, queue[j].data.category)
                rule == queue[j].alertRule
            IN /\ rule.isActive
               /\ IF total > rule.threshold
                  THEN /\ Emitted(j) =
                             {AlertEvent(queue[j].data.userId, queue[j].data.category,
                                         rule, total)}
                       /\ Completes(j, TRUE)
                  ELSE /\ Emitted(j) = {}
                       /\ Completes(j, FALSE)

C8_OnlyEvaluationsEmit ==
    \A a \in alerts' \ alerts : Evaluating(a.job, "aggregate")

C8_TotalIsSum ==
    \A userId \in UserIds, category \in AllowedSet :
        /\ getTotalByCategory(userId, category) = Spend(userId, category)
        /\ (\A t \in transactions : ~(t.userId = userId /\ t.category = category))
               => getTotalByCategory(userId, category) = 0

\* C8: an evaluation emits an AlertEvent exactly when its rule lookup finds
\* an active rule for the job's (userId, category) and the sum of the amounts
\* of all transactions stored for that pair when the total is read is
\* strictly greater than the threshold of that rule; a total equal to the
\* threshold emits nothing, and the total of no transactions is 0.
C8_AlertIffActiveRuleExceeded ==
    /\ [](C8_TotalIsSum)
    /\ [][C8_LookupStep /\ C8_AggregateStep /\ C8_OnlyEvaluationsEmit]_vars

C8_Witness ==
    /\ \E a \in alerts : a.event.totalSpent > a.event.threshold
    /\ \E j \in DOMAIN queue :
           /\ Evaluating(j, "aggregate")
           /\ Spend(queue[j].data.userId, queue[j].data.category)
                  = queue[j].alertRule.threshold

C9_NoActiveRuleStep ==
    \A j \in DOMAIN queue :
        /\ Evaluating(j, "lookup") /\ Touches(j)
        /\ ActiveRules(queue[j].data.userId, queue[j].data.category) = {}
        => /\ Completes(j, FALSE)
           /\ ~Raises(j)
           /\ alerts' = alerts

\* C9: when the rule lookup of a job finds no rule for its (userId,
\* category), or a rule with isActive = false, the evaluation ends in that
\* step: no alert is emitted, no error is raised and the job completes with
\* alertTriggered false, whatever the total spend of the pair is.
C9_NoAlertWithoutActiveRule == [][C9_NoActiveRuleStep]_vars

C9_Witness ==
    /\ alerts = {}
    /\ \E t \in transactions, rule \in rules :
           /\ transactions = {t}
           /\ rule.userId = t.userId /\ rule.category = t.category
           /\ ~rule.isActive
           /\ rule.threshold = 20
           /\ t.amount > rule.threshold
           /\ \E e \in completedLog :
                  /\ e.data.transactionId = t.id
                  /\ ~e.returnvalue.alertTriggered

----------------------------------------------------------------------------
(* Properties of the scenario of three transactions: ScenarioSpec *)

\* the transaction that job j was produced for, if it is in the store
OwnTransaction(j) == { t \in transactions : t.id = queue[j].data.transactionId }

\* the sum of the amounts of the job's own transaction and of the
\* transactions of its (userId, category) persisted before it
SpendUpTo(j) ==
    SumAmount({ t \in transactions :
                  /\ t.userId = queue[j].data.userId
                  /\ t.category = queue[j].data.category
                  /\ t.id <= queue[j].data.transactionId })

C10_JobAfterTransaction ==
    \A j \in DOMAIN queue :
        \E t \in OwnTransaction(j) :
            /\ t.userId = queue[j].data.userId
            /\ t.category = queue[j].data.category
            /\ t.amount = queue[j].data.amount

C10_EvaluationStep ==
    \A j \in DOMAIN queue :
        Evaluating(j, "aggregate") /\ Touches(j) /\ ~Raises(j) =>
            /\ OwnTransaction(j) # {}
            /\ \A e \in Emitted(j) :
                   /\ e.totalSpent >= SpendUpTo(j)
                   /\ e.totalSpent = Spend(queue[j].data.userId, queue[j].data.category)
            /\ SpendUpTo(j) > queue[j].alertRule.threshold =>
                   \E e \in Emitted(j) : e.totalSpent >= SpendUpTo(j)

\* C10: a job is in the queue only with its transaction in the store, so the
\* total read by its evaluation covers its own transaction and those of the
\* same (userId, category) persisted before it: when that sum is over the
\* threshold of the active rule the evaluation read, the job yields an alert
\* whose totalSpent is the full sum (5, 15 and 85 against 100: 105).
C10_TotalIncludesOwnTransaction ==
    [](C10_JobAfterTransaction) /\ [][C10_EvaluationStep]_vars

C10_Witness ==
    \E a \in alerts, e \in completedLog :
        /\ e.id = a.job
        /\ e.data.transactionId = 3 /\ e.data.amount = 85
        /\ e.returnvalue.alertTriggered
        /\ a.event.threshold = 100
        /\ a.event.totalSpent = 105
        /\ { t.amount : t \in transactions } = {5, 15, 85}

----------------------------------------------------------------------------
(* Properties of the job life cycle: RetrySpec *)

\* the state of job j: that of its record in the queue, "completed" once the
\* worker reported it completed, "none" before it is added
StateOf(j) ==
    IF j \in DOMAIN queue THEN queue[j].state
    ELSE IF \E e \in completedLog : e.id = j THEN "completed"
    ELSE "none"

\* the failed attempts of job j
AttemptsOf(j) ==
    IF j \in DOMAIN queue THEN queue[j].attemptsMade
    ELSE IF \E e \in completedLog : e.id = j
    THEN (CHOOSE e \in completedLog : e.id = j).attemptsMade
    ELSE 0

\* queued -> processing, processing -> completed, processing -> failed with
\* a retry to come ("delayed"), failed -> queued, processing -> failed for
\* good ("failed", the dead state)
JobTransitions ==
    { << "none", "waiting" >>, << "waiting", "active" >>,
      << "active", "completed" >>, << "active", "delayed" >>,
      << "delayed", "waiting" >>, << "active", "failed" >> }

C11_TransitionStep ==
    \A j \in JobIds :
        /\ StateOf(j)' # StateOf(j) =>
               /\ << StateOf(j), StateOf(j)' >> \in JobTransitions
               /\ StateOf(j)' = "delayed" => AttemptsOf(j)' < attempts
               /\ StateOf(j)' = "failed" => AttemptsOf(j)' = attempts
        /\ StateOf(j) \in {"completed", "failed"} =>
               /\ StateOf(j)' = StateOf(j)
               /\ AttemptsOf(j)' = AttemptsOf(j)
               /\ j \in DOMAIN queue => queue'[j] = queue[j]

\* C11: a job only moves queued -> processing, processing -> completed,
\* processing -> failed, failed -> queued while attempts remain, and
\* failed -> dead when they are used up; a completed job and a dead job never
\* change again.
C11_JobStateMachine == [][C11_TransitionStep]_vars

C11_Witness ==
    \E j, k \in JobIds :
        /\ StateOf(j) = "failed" /\ AttemptsOf(j) = attempts
        /\ StateOf(k) = "completed" /\ AttemptsOf(k) = 1

\* the attempts of job j that were started: those that failed and the one
\* that is running or that completed it
StartedOf(j) ==
    AttemptsOf(j) + (IF StateOf(j) \in {"active", "completed"} THEN 1 ELSE 0)

C12_AttemptsBounded ==
    \A j \in JobIds :
        /\ StartedOf(j) <= attempts
        /\ StateOf(j) = "failed" <=> AttemptsOf(j) = attempts
        /\ StateOf(j) = "completed" => AttemptsOf(j) < attempts

C12_AttemptStep ==
    \A j \in JobIds :
        StateOf(j) = "active" /\ StateOf(j)' # "active" =>
            IF AttemptsOf(j)' = AttemptsOf(j)
            THEN StateOf(j)' = "completed"
            ELSE /\ AttemptsOf(j)' = AttemptsOf(j) + 1
                 /\ StateOf(j)' = IF AttemptsOf(j)' < attempts
                                  THEN "delayed" ELSE "failed"

\* C12: a job is attempted at most 3 times: an attempt that returns
\* completes the job also after one or two throws, a throw leaves the job to
\* be retried while fewer than 3 attempts threw, and only the third throw
\* puts the job in the terminal failed state.
C12_AtMostThreeAttempts ==
    [](C12_AttemptsBounded) /\ [][C12_AttemptStep]_vars

C12_Witness ==
    \E j, k \in JobIds :
        /\ StateOf(j) = "completed" /\ AttemptsOf(j) = 2
        /\ StateOf(k) = "failed" /\ StartedOf(k) = 3

AddedJobs == 1 .. (nextJobId - 1)

C14_StoreHolds ==
    /\ DOMAIN queue \subseteq AddedJobs
    /\ \A j \in DOMAIN queue :
           /\ queue[j].state \in {"waiting", "active", "delayed", "failed"}
           /\ \A e \in completedLog : e.id # j
    /\ \A j \in AddedJobs : j \notin DOMAIN queue => StateOf(j) = "completed"

C14_RetentionStep ==
    \A j \in DOMAIN queue :
        /\ j \notin DOMAIN queue' => Completes(j, TRUE) \/ Completes(j, FALSE)
        /\ queue[j].state = "failed" => j \in DOMAIN queue' /\ queue'[j] = queue[j]

\* C14: the queue store holds no completed job and every job that used up
\* its attempts: a job leaves the store only in the step that completes it,
\* and a job that is in the store or has left it otherwise is never lost.
C14_CompletedRemovedDeadRetained ==
    [](C14_StoreHolds) /\ [][C14_RetentionStep]_vars

C14_Witness ==
    \E j, k \in AddedJobs :
        /\ j \in DOMAIN queue /\ queue[j].state = "failed"
        /\ queue[j].attemptsMade = attempts
        /\ k \notin DOMAIN queue /\ StateOf(k) = "completed"

\* the effects of a thrown attempt of job j: the retry policy
FailureEffects(j) ==
    /\ j \in DOMAIN queue'
    /\ queue'[j].attemptsMade = queue[j].attemptsMade + 1
    /\ queue'[j].state = IF queue'[j].attemptsMade < attempts THEN "delayed" ELSE "failed"
    /\ queue'[j].workers = {}
    /\ queue'[j].data = queue[j].data
    /\ Emitted(j) = {}
    /\ completedLog' = completedLog

C15_AttemptStep ==
    \A j \in DOMAIN queue :
        queue[j].state = "active" /\ Touches(j) =>
            IF Raises(j) THEN FailureEffects(j)
            ELSE Completes(j, TRUE) \/ Completes(j, FALSE) \/ Evaluating(j, "aggregate")'

\* C15: an attempt ends with the result the rule and the total call for, or
\* as a failure of the job: a lookup or an aggregation that throws is never
\* answered by a completed job without the alert that was due, and a failure
\* counts an attempt, emits nothing and leaves the job to the retry policy.
C15_ExceptionsFailTheJob ==
    [][C15_AttemptStep /\ C8_LookupStep /\ C8_AggregateStep]_vars

C15_Witness ==
    \E j \in DOMAIN queue :
        /\ queue[j].state = "delayed" /\ queue[j].attemptsMade = 2
        /\ ActiveRules(queue[j].data.userId, queue[j].data.category) # {}
        /\ \A rule \in ActiveRules(queue[j].data.userId, queue[j].data.category) :
               Spend(queue[j].data.userId, queue[j].data.category) > rule.threshold
        /\ alerts = {} /\ completedLog = {}
        /\ transactions # {} /\ \A t \in transactions : t.id = queue[j].data.transactionId

----------------------------------------------------------------------------
(* Progress of the jobs: RetryLiveSpec *)

\* C16: with the worker taking jobs whenever it can, every call returning
\* and every backoff delay passing, each job that was added to the queue
\* eventually is completed or has failed for good; none stays waiting,
\* active or delayed forever.
C16_EveryJobTerminates ==
    \A j \in 1 .. RetryMaxTx :
        (j \in DOMAIN queue) ~> (StateOf(j) \in {"completed", "failed"})

C16_Witness ==
    /\ AddedJobs = 1 .. RetryMaxTx
    /\ InFlight = {}
    /\ \A j \in AddedJobs : StateOf(j) \in {"completed", "failed"}
    /\ \E j \in AddedJobs : StateOf(j) = "failed"
    /\ \E j \in AddedJobs : StateOf(j) = "completed" /\ AttemptsOf(j) > 0

----------------------------------------------------------------------------
(* Properties of the rule management: RuleSpec *)

\* the rules stored for (userId, category)
RulesOf(userId, category) ==
    { x \in rules : x.userId = userId /\ x.category = category }

\* a rule-management handler ran in the step and this is its exchange
Handled(op) == ruleReq' # ruleReq /\ ruleReq'.op = op

C17_UniquePairs ==
    \A userId \in UserIds, category \in AllowedSet :
        /\ Cardinality(RulesOf(userId, category)) <= 1
        /\ IF RulesOf(userId, category) = {}
           THEN findByUserAndCategory(userId, category) = NoRule
           ELSE RulesOf(userId, category) = {findByUserAndCategory(userId, category)}

C17_DuplicateStep ==
    Handled("POST") /\ ruleReq'.body.userId.t = "string"
                    /\ ruleReq'.body.category.t = "string"
                    /\ RulesOf(ruleReq'.body.userId.s, ruleReq'.body.category.s) # {}
        => /\ rules' = rules
           /\ nextRuleId' = nextRuleId
           /\ ~ruleReq'.response.success
           /\ ruleReq'.response.statusCode \in {400, 500}
           /\ ruleReq'.response.error # ""

\* C17: at most one rule is stored for a (userId, category) pair and
\* findByUserAndCategory returns that rule or none; a create for a pair that
\* has a rule is answered with an error and leaves the rule table unchanged.
C17_OneRulePerPair ==
    [](C17_UniquePairs) /\ [][C17_DuplicateStep]_vars

C17_Witness ==
    /\ ruleReq.op = "POST"
    /\ ruleReq.storeCalled
    /\ ruleReq.response.statusCode = 500
    /\ ruleReq.response.error = "Unique constraint failed"
    /\ Cardinality(RulesOf(ruleReq.body.userId.s, ruleReq.body.category.s)) = 1
    /\ \A x \in RulesOf(ruleReq.body.userId.s, ruleReq.body.category.s) :
           x.threshold # ruleReq.body.threshold.n

\* a stored rule is well formed
WellFormedRule(x) ==
    /\ x.category \in AllowedSet
    /\ x.threshold > 0
    /\ x.isActive \in BOOLEAN

\* the body of the exchange violates the constraints of a rule: for a create
\* an unknown category or a threshold that is not a number > 0, for an update
\* neither field, such a threshold, or an isActive that is not a boolean
Malformed(exchange) ==
    LET body == exchange.body
        badThreshold == body.threshold.t # "number" \/ body.threshold.n <= 0
    IN \/ /\ exchange.op = "POST"
          /\ \/ ~(body.category.t = "string" /\ body.category.s \in AllowedSet)
             \/ badThreshold
       \/ /\ exchange.op = "PATCH"
          /\ \/ body.threshold.t = "undefined" /\ body.isActive.t = "undefined"
             \/ body.threshold.t # "undefined" /\ badThreshold
             \/ body.isActive.t \notin {"undefined", "boolean"}

\* C18: every stored rule has an allowed category, a threshold > 0 and a
\* boolean isActive, and a create or an update with a malformed body is
\* rejected before the repository is called.
C18_MalformedRejectedBeforeStore ==
    /\ \A x \in rules : WellFormedRule(x)
    /\ Malformed(ruleReq) => /\ ~ruleReq.storeCalled
                             /\ ~ruleReq.response.success

\* the stored rule with the given id after the step
RuleAfter(id) == CHOOSE y \in rules' : y.id = id

C19_UpdateStep ==
    Handled("PATCH") =>
        LET body == ruleReq'.body
            ok == ruleReq'.response.success
        IN
        /\ { x.id : x \in rules' } = { x.id : x \in rules }
        /\ Cardinality(rules') = Cardinality(rules)
        /\ \A x \in rules :
              /\ RuleAfter(x.id).userId = x.userId
              /\ RuleAfter(x.id).category = x.category
              /\ x.id # ruleReq'.id \/ ~ok => RuleAfter(x.id) = x
              /\ RuleAfter(x.id).threshold =
                     IF ok /\ x.id = ruleReq'.id /\ body.threshold.t # "undefined"
                     THEN body.threshold.n ELSE x.threshold
              /\ RuleAfter(x.id).isActive =
                     IF ok /\ x.id = ruleReq'.id /\ body.isActive.t # "undefined"
                     THEN body.isActive.n = 1 ELSE x.isActive

\* C19: an update changes only the fields supplied (threshold and/or
\* isActive) of the rule addressed: id, userId and category never change, a
\* field not supplied keeps its value, and no other rule is modified.
C19_UpdateChangesOnlySuppliedFields == [][C19_UpdateStep]_vars

\* a threshold-only update has been applied to an inactive rule while another
\* rule is stored
C19_Witness ==
    /\ ruleReq.op = "PATCH"
    /\ ruleReq.response.success
    /\ ruleReq.body.threshold.t = "number"
    /\ ruleReq.body.isActive.t = "undefined"
    /\ \E x, y \in rules :
          /\ x.id = ruleReq.id
          /\ y.id # x.id
          /\ ~x.isActive
          /\ x.threshold = ruleReq.body.threshold.n

----------------------------------------------------------------------------
(* Claims on the interleaving of ingestion and evaluation, checked under
   OrderSpec *)

\* no request is in flight and every job enqueued has completed
Quiescent ==
    /\ InFlight = {}
    /\ DOMAIN queue = {}
    /\ Cardinality(completedLog) = Cardinality(transactions)

\* the alert events emitted for (userId, category)
EventsFor(userId, category) ==
    { a \in alerts : a.event.userId = userId /\ a.event.category = category }

\* C20: with a fixed active rule, no deletion, every dispatch succeeding and
\* every job completing, whatever the interleaving of the requests and the
\* evaluations, at least one AlertEvent has been emitted for the pair exactly
\* when the total of the transactions ingested exceeds the threshold.
C20_DecisionIndependentOfOrder ==
    Quiescent =>
        (EventsFor(OrderRule.userId, OrderRule.category) # {}
            <=> Spend(OrderRule.userId, OrderRule.category) > OrderRule.threshold)

\* the transactions of the pair were ingested, one evaluation read a total
\* that did not exceed the threshold, another the final total that does, and
\* every job has completed
C20_Witness ==
    /\ Quiescent
    /\ Cardinality(transactions) = OrderMaxTx
    /\ Spend(OrderRule.userId, OrderRule.category) > OrderRule.threshold
    /\ \E a \in alerts : a.event.totalSpent = Spend(OrderRule.userId, OrderRule.category)
    /\ \E c \in completedLog :
          c.data.userId = OrderRule.userId /\ ~c.returnvalue.alertTriggered

\* job j, which evaluates the pair of OrderRule, returns from the processor
\* in this step
Returns(j) ==
    /\ j \in DOMAIN queue
    /\ queue[j].state = "active"
    /\ queue[j].data.userId = OrderRule.userId
    /\ queue[j].data.category = OrderRule.category
    /\ j \notin DOMAIN queue'

\* the event of job j is new in this step
Emits(j) == \E a \in alerts' \ alerts : a.job = j

C21_EmitStep ==
    \A j \in DOMAIN queue :
        /\ Returns(j)
        /\ EventsFor(OrderRule.userId, OrderRule.category) # {}
        /\ Spend(OrderRule.userId, OrderRule.category) > OrderRule.threshold
        => /\ Emits(j)
           /\ Cardinality(EventsFor(OrderRule.userId, OrderRule.category)') =
                  Cardinality(EventsFor(OrderRule.userId, OrderRule.category)) + 1

\* C21: evaluations of one (userId, category) are neither serialised nor
\* deduplicated: a job evaluated after the breach emits an AlertEvent of its
\* own although an event was already emitted for the pair, so duplicate
\* alerts for the same breach are reached.
C21_DuplicateAlertsEmitted == [][C21_EmitStep]_vars

\* two jobs of the pair have each emitted an event for the same total
C21_Witness ==
    \E a, b \in EventsFor(OrderRule.userId, OrderRule.category) :
        /\ a.job # b.job
        /\ a.event.totalSpent = b.event.totalSpent
        /\ a.event.threshold = b.event.threshold

\* the completed jobs that evaluated the pair of OrderRule
CompletedFor(userId, category) ==
    { c \in completedLog : c.data.userId = userId /\ c.data.category = category }

\* two jobs of the pair have completed without an alert although their two
\* transactions together exceed the threshold
Missed ==
    \E c, d \in CompletedFor(OrderRule.userId, OrderRule.category) :
        /\ c.id # d.id
        /\ ~c.returnvalue.alertTriggered
        /\ ~d.returnvalue.alertTriggered
        /\ c.data.amount + d.data.amount > OrderRule.threshold

----------------------------------------------------------------------------
(* Claims on repeated evaluations of an unchanged store, checked under
   EvalSpec *)

\* the decision of a completed evaluation of job j: whether it alerted and,
\* if it did, the threshold and the total of its event
DecisionOf(c) ==
    [alertTriggered |-> c.returnvalue.alertTriggered,
     events |-> { [threshold |-> a.event.threshold, totalSpent |-> a.event.totalSpent] :
                    a \in { b \in alerts : b.job = c.id } }]

C23_SameDecision ==
    \A c, d \in completedLog :
        /\ DecisionOf(c) = DecisionOf(d)
        /\ c.returnvalue.alertTriggered <=> DecisionOf(c).events # {}

C23_StoreStep ==
    /\ users' = users
    /\ transactions' = transactions
    /\ rules' = rules

\* C23: evaluations of one (userId, category) run again with no transaction
\* added or deleted and the rule unchanged yield the same decision, alert or
\* no alert, with the same threshold and totalSpent, and change no stored
\* state.
C23_EvaluationIdempotent == [](C23_SameDecision) /\ [][C23_StoreStep]_vars

\* two evaluations have alerted with the same event, one of them after a
\* failed attempt
C23_Witness ==
    \E c, d \in completedLog :
        /\ c.id # d.id
        /\ c.returnvalue.alertTriggered
        /\ d.returnvalue.alertTriggered
        /\ d.attemptsMade > 0
        /\ DecisionOf(c).events # {}
        /\ DecisionOf(c) = DecisionOf(d)

----------------------------------------------------------------------------
(* Claims on successive evaluations while transactions are added, checked
   under OrderSpec *)

\* the completed event of job j in this step reports an alert
ReportsAlert(j) ==
    \E c \in completedLog' \ completedLog : c.id = j /\ c.returnvalue.alertTriggered

C24_MonotoneStep ==
    \A j \in DOMAIN queue :
        Returns(j) =>
            /\ Spend(OrderRule.userId, OrderRule.category) > OrderRule.threshold
                   => Emits(j) /\ ReportsAlert(j)
            /\ CompletedFor(OrderRule.userId, OrderRule.category) # {}
               /\ (\E c \in CompletedFor(OrderRule.userId, OrderRule.category) :
                       c.returnvalue.alertTriggered)
                   => Emits(j) /\ ReportsAlert(j)

\* C24: with an active unchanged rule and no deletion, an evaluation made
\* once a transaction has raised the total above the threshold alerts, also
\* when an earlier evaluation did not; and once an evaluation has alerted,
\* every later evaluation of the pair alerts.
C24_Monotone == [][C24_MonotoneStep]_vars

\* an evaluation did not alert, another transaction raised the total above
\* the threshold, the next evaluation alerted, and nothing is left to do
C24_Witness ==
    /\ Quiescent
    /\ \E c \in CompletedFor(OrderRule.userId, OrderRule.category) :
          /\ ~c.returnvalue.alertTriggered
          /\ \E a \in alerts :
                /\ a.job > c.id
                /\ a.event.totalSpent = Spend(OrderRule.userId, OrderRule.category)
                /\ a.event.totalSpent > c.data.amount

----------------------------------------------------------------------------
(* Claims on the effects of the evaluation path, checked under RetrySpec *)

\* the worker acts on a job in this step: it takes it, runs a step of the
\* processor on it, fails or completes it, or requeues it after its delay
WorkerStep ==
    \E j \in DOMAIN queue : j \notin DOMAIN queue' \/ queue'[j] # queue[j]

C25_FrameStep ==
    WorkerStep => /\ rules' = rules
                  /\ transactions' = transactions
                  /\ users' = users

\* C25: processing a job, whether it completes, alerts or fails, leaves the
\* AlertRule store, the Transaction store and the User store unchanged.
C25_EvaluationReadOnly == [][C25_FrameStep]_vars

\* a job has alerted and another attempt has failed, with a rule, a user and
\* transactions stored
C25_Witness ==
    /\ alerts # {}
    /\ \E j \in DOMAIN queue : queue[j].attemptsMade > 0
    /\ rules # {}
    /\ users # {}
    /\ transactions # {}

----------------------------------------------------------------------------
(* Claims on the Transaction store, checked under StoreSpec *)

\* the step removes the transaction t and does nothing else: a deletion
Deletes(t) ==
    /\ transactions' = transactions \ {t}
    /\ UNCHANGED << users, nextTxId, ruleVars, queueVars, req, workerVars, probe, spending >>

C26_ImmutableStep ==
    /\ \A t \in transactions :
          \/ t \in transactions'
          \/ Deletes(t) /\ ~\E u \in transactions' : u.id = t.id
    /\ \A u \in transactions' \ transactions :
          \A t \in transactions : u.id # t.id

\* C26: a persisted Transaction is immutable: no step changes the id,
\* userId, description, amount, category or confidence of a stored row, no
\* new row takes the id of a stored one, and a row leaves the store only by
\* a deletion.
C26_TransactionsImmutable == [][C26_ImmutableStep]_vars

\* a transaction was deleted, another is stored, and the job of the deleted
\* one has been evaluated
C26_Witness ==
    /\ Cardinality(transactions) = 1
    /\ nextTxId = 3
    /\ \E c \in completedLog : findById(c.data.transactionId) = NoTransaction
    /\ \E t \in transactions : \E c \in completedLog : c.data.transactionId = t.id

----------------------------------------------------------------------------
(* Claims on the provisioning of users by TransactionRepository.create,
   checked under ProvisionSpec *)

C27_Referenced == \A t \in transactions : t.userId \in users

C27_ProvisionStep ==
    /\ \A t \in transactions' \ transactions : t.userId \in users
    /\ \A r \in RequestIds :
          LET userId == req[r].body.userId.s
          IN /\ req[r].pc = "findUser" /\ req'[r].pc = "insertTx"
                 => userId \in users /\ users' = users
             /\ req[r].pc = "findUser" /\ req'[r].pc = "createUser"
                 => users' = users
             /\ req[r].pc = "createUser" /\ req'[r].pc = "insertTx"
                 => userId \notin users /\ users' = users \cup {userId}
             /\ req[r].pc = "createUser" /\ userId \in users /\ req'[r] # req[r]
                 => users' = users /\ req'[r].pc = "done"
                    /\ req'[r].response.statusCode = 500

\* C27: TransactionRepository.create for a userId with no User creates that
\* User before it inserts the transaction, for an existing userId it creates
\* no second User, and the userId of every stored transaction is that of an
\* existing User.
C27_LazyUserProvisioning == [](C27_Referenced) /\ [][C27_ProvisionStep]_vars

\* two requests of one new user ran together: one created the user and
\* stored its transaction, the create of the other was refused
C27_Witness ==
    \E r, q \in RequestIds :
        /\ r # q
        /\ req[r].body.userId = req[q].body.userId
        /\ req[r].response.statusCode = 201
        /\ req[r].response.data \in transactions
        /\ req[q].response.error = "user create failed"
        /\ users = {req[r].body.userId.s}

----------------------------------------------------------------------------
(* Claims on the ingestion when the classification fails, checked under
   FallbackSpec *)

\* the errors of the persistence and of the dispatch
StoreOrQueueErrors ==
    {"user create failed", "transaction create failed", "queue add failed"}

C28_FallbackReturned ==
    \A r \in RequestIds :
        Finished(r) =>
            IF req[r].response.statusCode = 201
            THEN /\ req[r].response.data.category = "Shopping"
                 /\ req[r].response.data.confidence = 50
                 /\ req[r].response.data \in transactions
                 /\ \E job \in Produced :
                       /\ job.data.transactionId = req[r].response.data.id
                       /\ job.data.category = "Shopping"
            ELSE req[r].response.error \in StoreOrQueueErrors

C28_ClassifyStep ==
    \A r \in RequestIds :
        req[r].pc = "classify" /\ req'[r] # req[r] =>
            /\ req'[r].pc = "findUser"
            /\ req'[r].classification.category = "Shopping"
            /\ req'[r].classification.confidence = 50

----------------------------------------------------------------------------
(* Claims on calls that do not return, checked under HangLiveSpec *)

\* job j occupies a worker slot
Occupies(j) == j \in DOMAIN queue /\ queue[j].state = "active"

\* C29: every external call of the evaluation is bounded by a timeout, so a
\* worker slot that started a call is always eventually released: a job that
\* is being processed eventually is no longer being processed.
C29_SlotEventuallyReleased ==
    \A j \in 1 .. RetryMaxTx : Occupies(j) ~> ~Occupies(j)

----------------------------------------------------------------------------
(* Claims on the size of the worker pool, checked under PoolSpec *)

\* C30: at most 5 jobs are being processed at any time in one worker pool,
\* whatever the number of jobs waiting, and each of them holds a slot of its
\* own.
C30_AtMostFiveProcessing ==
    /\ Cardinality(Active) <= 5
    /\ BusySlots \subseteq WorkerSlots
    /\ Cardinality(BusySlots) = Cardinality(Active)

\* every slot is busy while a job waits
C30_Witness ==
    /\ Cardinality(Active) = 5
    /\ BusySlots = WorkerSlots
    /\ \E j \in DOMAIN queue : queue[j].state = "waiting"


----------------------------------------------------------------------------
(* Claims on what the evaluation path gives back to the ingestion, checked
   under ChannelSpec *)

\* the results a createTransaction call can give for the request in slot r:
\* the transaction made of the request's own body and classification, or an
\* error of the ingestion's own calls
ResultsOf(r) ==
    { Response(201, "", req[r].transaction) } \cup
    { Response(500, m, NoTransaction) :
          m \in {"user create failed", "transaction create failed", "queue add failed"} }

C31_ResultOfIngestion ==
    \A r \in RequestIds :
        Finished(r) /\ req[r].response.statusCode # 400 =>
            /\ req[r].response \in ResultsOf(r)
            /\ req[r].response.statusCode = 201 =>
                   /\ req[r].transaction.userId = req[r].body.userId.s
                   /\ req[r].transaction.amount = req[r].body.amount.n
                   /\ req[r].transaction.category = req[r].classification.category

C31_ChannelStep ==
    WorkerStep \/ alerts' # alerts \/ completedLog' # completedLog => req' = req

\* C31: the evaluation path has no return channel to the ingestion: no step
\* of the worker on a job, whether the job is taken, completes, alerts, fails,
\* is retried or dies, changes the result of any request, and the result of a
\* request is made of the request and of the ingestion's own calls only.
C31_NoReturnChannel == [](C31_ResultOfIngestion) /\ [][C31_ChannelStep]_vars

\* a request was answered 201 and its job has died, another job has alerted
C31_Witness ==
    /\ \E r \in RequestIds :
          /\ Finished(r) /\ req[r].response.statusCode = 201
          /\ \E j \in DOMAIN queue :
                /\ queue[j].state = "failed"
                /\ queue[j].data.transactionId = req[r].transaction.id
    /\ alerts # {}


----------------------------------------------------------------------------
(* Claims on the content of the AlertEvents, checked under Spec, where a
   rule is given a new threshold or deactivated while jobs are evaluated *)

\* the lookup of job j that goes on to the aggregation keeps the rule it
\* read, which is the rule of the job's pair as stored in this step
C32_ReadStep ==
    \A j \in DOMAIN queue :
        Evaluating(j, "lookup") /\ j \in DOMAIN queue' /\ queue'[j].pc = "aggregate" =>
            /\ queue'[j].alertRule \in rules
            /\ queue'[j].alertRule.userId = queue[j].data.userId
            /\ queue'[j].alertRule.category = queue[j].data.category

\* an event emitted for job j carries the pair of the job, the threshold of
\* the rule that this evaluation read and the total of the pair in this step
C32_EmitStep ==
    \A j \in DOMAIN queue : \A event \in Emitted(j) :
        /\ Evaluating(j, "aggregate")
        /\ event.userId = queue[j].data.userId
        /\ event.category = queue[j].data.category
        /\ event.threshold = queue[j].alertRule.threshold
        /\ event.totalSpent = Spend(event.userId, event.category)
        /\ event.totalSpent > event.threshold

C32_EventsExceed ==
    \A a \in alerts : a.event.totalSpent > a.event.threshold

\* C32: every emitted AlertEvent carries the userId and category of the
\* evaluated pair, the threshold of the rule read in that same evaluation and
\* the total computed in that same evaluation, and its total is above its
\* threshold.
C32_AlertEventContent ==
    [](C32_EventsExceed) /\ [][C32_ReadStep /\ C32_EmitStep]_vars

\* an event was emitted with the threshold its evaluation read, and the rule
\* of the pair has another threshold now
C32_Witness ==
    \E a \in alerts :
        /\ findByUserAndCategory(a.event.userId, a.event.category) # NoRule
        /\ findByUserAndCategory(a.event.userId, a.event.category).threshold
               # a.event.threshold


----------------------------------------------------------------------------
(* Claims on the ingestions that fail, checked under ProvisionSpec *)

\* the step ends the request in slot r with an error of createTransaction
FailsIn(r, pc) ==
    /\ req[r].pc = pc
    /\ req'[r].pc = "done"
    /\ req'[r].response.statusCode = 500

\* the failing step of a request writes nothing and removes nothing; whatever
\* step it is, no user and no transaction is ever taken away and no job leaves
\* the queue
C33_FailureStep ==
    /\ \A r \in RequestIds :
          (\E pc \in {"createUser", "insertTx", "enqueue"} : FailsIn(r, pc)) =>
              /\ users' = users
              /\ transactions' = transactions /\ nextTxId' = nextTxId
              /\ queue' = queue /\ nextJobId' = nextJobId
    /\ users \subseteq users'
    /\ transactions \subseteq transactions'
    /\ DOMAIN queue \subseteq DOMAIN queue'

\* a request whose insert failed has its user stored, no transaction and no
\* job; there are as many transactions as inserts that succeeded, each with at
\* most one job
C33_FailedInsertState ==
    /\ \A r \in RequestIds :
          Finished(r) /\ req[r].response.error = "transaction create failed" =>
              /\ req[r].body.userId.s \in users
              /\ req[r].transaction = NoTransaction
    /\ Cardinality(transactions) = nextTxId - 1
    /\ \A j \in DOMAIN queue :
          \E t \in transactions : queue[j].data.transactionId = t.id

\* C33: a failed ingestion has no side effects beyond what had already
\* committed and undoes nothing: when the user was provisioned and the insert
\* of the transaction then fails, the User record remains, no Transaction
\* exists for the request and no job is enqueued.
C33_FailedIngestionKeepsCommitted ==
    [](C33_FailedInsertState) /\ [][C33_FailureStep]_vars

\* the one request so far provisioned its user and failed at the insert
C33_Witness ==
    \E r \in RequestIds :
        /\ Finished(r) /\ req[r].response.error = "transaction create failed"
        /\ \A s \in RequestIds \ {r} : req[s] = IdleRequest
        /\ users = {req[r].body.userId.s}
        /\ transactions = {}
        /\ DOMAIN queue = {}


----------------------------------------------------------------------------
(* Claims on requests of one new user that interleave, checked under
   RaceSpec, where no call fails for a reason of its own *)

\* C34: user provisioning is safe under concurrency: when two
\* TransactionRepository.create calls for the same unknown userId interleave,
\* each doing the existence check and then the user create, all of them insert
\* their transaction, and the user is stored once.
C34_ConcurrentProvisioningSucceeds ==
    \A r \in RequestIds :
        Finished(r) =>
            /\ req[r].response.statusCode = 201
            /\ req[r].transaction \in transactions
            /\ req[r].body.userId.s \in users


----------------------------------------------------------------------------
(* Claims on the events of a job over its attempts, checked under RetrySpec *)

\* the events emitted so far for job j
EventsOf(j) == { a \in alerts : a.job = j }

\* an attempt that raises emits nothing, and the step that emits an event for
\* a job completes the job, which never comes back
C35_AttemptStep ==
    /\ \A j \in DOMAIN queue :
          /\ Raises(j) => alerts' = alerts
          /\ Emitted(j) # {} =>
                /\ Cardinality(Emitted(j)) = 1
                /\ EventsOf(j) = {}
                /\ Completes(j, TRUE)
    /\ \A a \in alerts' \ alerts : a.job \in DOMAIN queue
    /\ \A j \in DOMAIN queue' \ DOMAIN queue : j >= nextJobId

C35_OneEventPerJob ==
    \A j \in AddedJobs :
        /\ Cardinality(EventsOf(j)) <= 1
        /\ EventsOf(j) # {} => j \notin DOMAIN queue

\* C35: each job emits at most one AlertEvent over all of its attempts: an
\* attempt that fails raises before any event is built, and the attempt that
\* emits is the one that completes the job, so retries never duplicate an
\* alert.
C35_AtMostOneEventPerJob == [](C35_OneEventPerJob) /\ [][C35_AttemptStep]_vars

\* a job failed an attempt, was retried and then emitted its one event
C35_Witness ==
    \E c \in completedLog :
        /\ c.attemptsMade > 0
        /\ c.returnvalue.alertTriggered
        /\ Cardinality(EventsOf(c.id)) = 1


----------------------------------------------------------------------------
(* Claims on what decides a job, checked under DecideSpec *)

\* the outcome of the lookup for a pair against the rules stored now: the job
\* completes with no alert, or goes on with the rule of the pair
LookupOutcome(userId, category) ==
    IF ActiveRules(userId, category) = {}
    THEN [done |-> TRUE, alertRule |-> NoRule]
    ELSE [done |-> FALSE, alertRule |-> CHOOSE x \in ActiveRules(userId, category) : TRUE]

\* the decision of the aggregation for a pair against the transactions stored
\* now and the rule that the lookup read
AggregateOutcome(userId, category, alertRule) ==
    Spend(userId, category) > alertRule.threshold

\* every step of the processor on a job gives the outcome of the job's pair
\* against the store as it is in that step; the job's transactionId and
\* amount and the store as it was at the enqueue play no part
C36_DecisionStep ==
    \A j \in DOMAIN queue :
        LET userId == queue[j].data.userId
            category == queue[j].data.category
        IN /\ Evaluating(j, "lookup") /\ Touches(j) =>
                 IF LookupOutcome(userId, category).done
                 THEN Completes(j, FALSE)
                 ELSE /\ j \in DOMAIN queue'
                      /\ queue'[j].pc = "aggregate"
                      /\ queue'[j].alertRule = LookupOutcome(userId, category).alertRule
           /\ Evaluating(j, "aggregate") /\ Touches(j) =>
                 Completes(j, AggregateOutcome(userId, category, queue[j].alertRule))

\* C36: the outcome of processing a job depends only on the job's (userId,
\* category) and on the store at processing time, not on the job's
\* transactionId or amount nor on the rules at enqueue time: a job whose
\* transaction was deleted, or whose rule was created, changed or deactivated
\* after the enqueue, is decided by the store as it is when processed.
C36_DecidedByPairAndStore == [][C36_DecisionStep]_vars

\* a job whose transaction is deleted alerted on the total of the others,
\* with an amount of its own below the threshold of the event
C36_Witness ==
    \E c \in completedLog :
        /\ c.returnvalue.alertTriggered
        /\ \A t \in transactions : t.id # c.data.transactionId
        /\ \E a \in EventsOf(c.id) : c.data.amount < a.event.threshold


----------------------------------------------------------------------------
(* Claims on the references to users, checked under IntegritySpec *)

C37_Referenced ==
    /\ \A t \in transactions : t.userId \in users
    /\ \A x \in rules : x.userId \in users

\* a valid POST /api/alert-rules for a user that is not stored is answered
\* with an error, and no rule and no user is written
C37_RejectStep ==
    Handled("POST") /\ RuleValidationError(ruleReq'.body) = ""
                    /\ ruleReq'.body.userId.s \notin users =>
        /\ ruleReq'.response.statusCode = 500
        /\ ~ruleReq'.response.success
        /\ rules' = rules /\ nextRuleId' = nextRuleId
        /\ users' = users

\* C37: referential integrity holds in every reachable state: every
\* Transaction and every AlertRule has a userId of an existing User; the
\* creation of a rule never provisions a user, so a rule for a userId with no
\* User record is rejected and changes nothing.
C37_ReferentialIntegrity == [](C37_Referenced) /\ [][C37_RejectStep]_vars

\* a transaction and a rule are stored for a user, and the rule last asked
\* for, of a user that is not stored, was rejected
C37_Witness ==
    /\ transactions # {}
    /\ rules # {}
    /\ ruleReq.op = "POST"
    /\ ruleReq.body.userId.s \notin users
    /\ ruleReq.response.error = "Foreign key constraint failed"


----------------------------------------------------------------------------
(* Claims on TransactionService.deleteTransaction, checked under StoreSpec *)

\* the transaction with the given id is stored and belongs to the user
OwnedBy(transactionId, userId) ==
    \E t \in transactions : t.id = transactionId /\ t.userId = userId

\* whatever is stored, a call throws unless the transaction is stored, is the
\* user's and the database answers
C38_ThrowsUnlessOwn ==
    \A transactionId \in 1 .. StoreMaxTx, userId \in UserIds, dbOk \in BOOLEAN :
        deleteTransactionError(transactionId, userId, dbOk) = ""
            <=> OwnedBy(transactionId, userId) /\ dbOk

\* a step that takes a row out of the store takes that one row and is a call
\* deleteTransaction by the owner of the row that did not throw; it is not a
\* call by anybody else
C38_RemovalStep ==
    \A t \in transactions \ transactions' :
        /\ transactions' = transactions \ {t}
        /\ deleteTransaction(t.id, t.userId, TRUE)
        /\ \A transactionId \in 1 .. StoreMaxTx, userId \in UserIds, dbOk \in BOOLEAN :
              deleteTransaction(transactionId, userId, dbOk) =>
                  /\ transactionId = t.id /\ userId = t.userId /\ dbOk
                  /\ deleteTransactionError(transactionId, userId, dbOk) = ""

\* a call that throws leaves the store as it is
C38_ThrowStep ==
    transactions' # transactions =>
        \A transactionId \in 1 .. StoreMaxTx, userId \in UserIds, dbOk \in BOOLEAN :
            deleteTransaction(transactionId, userId, dbOk) =>
                deleteTransactionError(transactionId, userId, dbOk) = ""

\* C38: deleteTransaction(transactionId, userId) deletes the transaction only
\* when it exists and its userId is the given userId; otherwise it fails with
\* an error and leaves the transaction store unchanged; a successful delete
\* removes exactly that one transaction.
C38_DeleteOnlyOwn ==
    [](C38_ThrowsUnlessOwn) /\ [][C38_RemovalStep /\ C38_ThrowStep]_vars

\* transactions of both users were stored, the one of u1 was deleted and the
\* one of u2 is still there
C38_Witness ==
    /\ users = {"u1", "u2"}
    /\ nextTxId = 3
    /\ Cardinality(transactions) = 1
    /\ \A t \in transactions : t.userId = "u2"


----------------------------------------------------------------------------
(* Claims on the spending summary, checked under SummarySpec *)

\* the step is a turn of the loop that wrote an entry of the summary
Reads == spending.pc = "reading" /\ spending'.summary # spending.summary

\* a turn of the loop writes the entry of the next allowed category, equal to
\* the sum of the amounts of the user's stored transactions of that category,
\* the total that the alert evaluation compares; it keeps the entries
\* written before; no step of the handler changes a store or the queue
C39_ReadStep ==
    /\ Reads =>
          LET category == ALLOWED_CATEGORIES[spending.next]
          IN /\ category \notin DOMAIN spending.summary
             /\ DOMAIN spending'.summary = DOMAIN spending.summary \cup {category}
             /\ spending'.summary[category] = Spend(spending.userId.s, category)
             /\ spending'.summary[category] =
                    getTotalByCategory(spending.userId.s, category)
             /\ \A c \in DOMAIN spending.summary :
                    spending'.summary[c] = spending.summary[c]
    /\ spending' # spending =>
          UNCHANGED << users, txVars, ruleVars, queueVars, req, workerVars >>

\* a summary that was returned has one entry for each allowed category and
\* no other, each a number that is not negative
C39_Returned ==
    spending.pc = "done" /\ spending.response.statusCode = 200 =>
        /\ spending.response.data = spending.summary
        /\ DOMAIN spending.response.data = AllowedSet
        /\ Cardinality(DOMAIN spending.response.data) = Len(ALLOWED_CATEGORIES)
        /\ \A c \in AllowedSet : spending.response.data[c] >= 0

====
